---- MODULE Spec2Model ----
(***************************************************************************)
(* Model of the time-log core: status transition policy, period-lock gate  *)
(* and the workflow engine (submit / approve / reject / lock / bill /      *)
(* submitTimesheet).  The workflow functions are pure; the model adds the  *)
(* caller that keeps the entries, hands a batch of them to one operation   *)
(* per step and then stores what a successful call returned.               *)
(***************************************************************************)
EXTENDS Integers, Sequences, FiniteSets, TLC

VARIABLES entries, last, lifecycle, timeLocks, lockCall, call, callers

vars == <<entries, last, lifecycle, timeLocks, lockCall, call, callers>>

\* the lock collection and the outstanding call of a lock function
lockVars == <<timeLocks, lockCall>>

(* ------------------------------ bounds --------------------------------- *)
\* longest batch handed to one call
MaxBatch == 2
\* longest lock list handed to one call
MaxLocks == 1
\* dates are the days 0..MaxTime of one month
MaxTime == 2
\* longest lock list handed to a lock function
MaxLockList == 2
\* most locks the lock collection holds
MaxStore == 2

(* ------------------------------ values --------------------------------- *)
\* an optional field is a sequence: <<>> when undefined, <<v>> when set
Undefined == <<>>

Some(v) == <<v>>

IsSet(f) == f # Undefined

Dates == 0..MaxTime

EntryIds == {"entry-1", "entry-2"}

Users == {"user-1"}

UserRoles == {"manager"}

Timestamps == {MaxTime + 1}

RejectReasons == {"", "Missing task details"}

LockReasons == {Undefined, Some("Monthly closing")}

InvoiceIds == {"invoice-1", "invoice-2"}

DRAFT == "DRAFT"

SUBMITTED == "SUBMITTED"

APPROVED == "APPROVED"

REJECTED == "REJECTED"

LOCKED == "LOCKED"

BILLED == "BILLED"

TimeEntryStatus == {DRAFT, SUBMITTED, APPROVED, REJECTED, LOCKED, BILLED}

\* Array.prototype.includes
Includes(arr, x) == \E i \in 1..Len(arr) : arr[i] = x

\* Date.prototype.toISOString for the days of March 2024
toISOString(d) == "2024-03-" \o (IF d + 1 < 10 THEN "0" ELSE "") \o ToString(d + 1) \o "T00:00:00.000Z"

(* ------------------------------ errors --------------------------------- *)
TimeLogError(message, code, statusCode, details) ==
    [name |-> "TimeLogError", isa |-> {"TimeLogError"}, message |-> message,
     code |-> code, statusCode |-> statusCode, details |-> details]

ValidationError(message, details) ==
    [TimeLogError(message, "VALIDATION_ERROR", 400, details)
        EXCEPT !.name = "ValidationError", !.isa = @ \cup {"ValidationError"}]

ConflictError(message, details) ==
    [TimeLogError(message, "CONFLICT", 409, details)
        EXCEPT !.name = "ConflictError", !.isa = @ \cup {"ConflictError"}]

PeriodLockedError(periodStart, periodEnd) ==
    [ConflictError("Cannot modify entries in locked period",
                   [periodStart |-> toISOString(periodStart),
                    periodEnd |-> toISOString(periodEnd)])
        EXCEPT !.name = "PeriodLockedError", !.isa = @ \cup {"PeriodLockedError"}]

\* slip: the two statuses are stored in each other's place
InvalidStatusTransitionErrorSwapped(currentStatus, targetStatus) ==
    [ValidationError("Cannot transition from " \o currentStatus \o " to " \o targetStatus,
                     [currentStatus |-> targetStatus, targetStatus |-> currentStatus])
        EXCEPT !.name = "InvalidStatusTransitionError",
               !.isa = @ \cup {"InvalidStatusTransitionError"}]

InvalidStatusTransitionError(currentStatus, targetStatus) ==
    [ValidationError("Cannot transition from " \o currentStatus \o " to " \o targetStatus,
                     [currentStatus |-> currentStatus, targetStatus |-> targetStatus])
        EXCEPT !.name = "InvalidStatusTransitionError",
               !.isa = @ \cup {"InvalidStatusTransitionError"}]

NoError == [name |-> "none"]

(* ------------------------------ policies ------------------------------- *)
canEditTimeEntry(status) == status = DRAFT \/ status = REJECTED

\* slip: a billed entry may be submitted again
canSubmitTimeEntryBilled(status) ==
    status = DRAFT \/ status = REJECTED \/ status = BILLED

\* slip: a rejected entry cannot be submitted again
canSubmitTimeEntryDraftOnly(status) == status = DRAFT

canSubmitTimeEntry(status) == status = DRAFT \/ status = REJECTED

\* slip: the guard names the target status instead of the source status
canApproveTimeEntryTarget(status) == status = APPROVED

canApproveTimeEntry(status) == status = SUBMITTED

\* slip: a locked entry may still be rejected
canRejectTimeEntryLocked(status) ==
    status = SUBMITTED \/ status = APPROVED \/ status = LOCKED

canRejectTimeEntry(status) == status = SUBMITTED \/ status = APPROVED

\* slip: a submitted entry may be locked without approval
canLockTimeEntrySubmitted(status) == status = APPROVED \/ status = SUBMITTED

canLockTimeEntry(status) == status = APPROVED

canBillTimeEntry(status) == status = LOCKED

\* date-fns areIntervalsOverlapping on intervals with start <= end
areIntervalsOverlapping(left, right, inclusive) ==
    IF inclusive
    THEN left.start <= right.end /\ right.start <= left.end
    ELSE left.start < right.end /\ right.start < left.end

\* slip: the inclusive test of the lock checks used for entries too
detectOverlapInclusive(entry1, entry2) ==
    areIntervalsOverlapping([start |-> entry1.startAt, end |-> entry1.endAt],
                            [start |-> entry2.startAt, end |-> entry2.endAt],
                            TRUE)

detectOverlap(entry1, entry2) ==
    areIntervalsOverlapping([start |-> entry1.startAt, end |-> entry1.endAt],
                            [start |-> entry2.startAt, end |-> entry2.endAt],
                            FALSE)

\* slip: the pair is pushed second id first
RECURSIVE findOverlapsLoopSwapped(_, _, _, _)
findOverlapsLoopSwapped(entryList, i, j, overlaps) ==
    IF i > Len(entryList) THEN overlaps
    ELSE IF j > Len(entryList) THEN findOverlapsLoopSwapped(entryList, i + 1, i + 2, overlaps)
    ELSE findOverlapsLoopSwapped(entryList, i, j + 1,
            IF detectOverlap(entryList[i], entryList[j])
            THEN Append(overlaps, <<entryList[j].id, entryList[i].id>>)
            ELSE overlaps)

\* the two nested loops, at the pair (i, j)
RECURSIVE findOverlapsLoop(_, _, _, _)
findOverlapsLoop(entryList, i, j, overlaps) ==
    IF i > Len(entryList) THEN overlaps
    ELSE IF j > Len(entryList) THEN findOverlapsLoop(entryList, i + 1, i + 2, overlaps)
    ELSE findOverlapsLoop(entryList, i, j + 1,
            IF detectOverlap(entryList[i], entryList[j])
            THEN Append(overlaps, <<entryList[i].id, entryList[j].id>>)
            ELSE overlaps)

findOverlaps(entryList) == findOverlapsLoop(entryList, 1, 2, <<>>)

\* slip: a lock that only touches the interval does not lock it
isPeriodLockedExclusive(startAt, endAt, locks) ==
    \E i \in 1..Len(locks) :
        /\ locks[i].isActive
        /\ areIntervalsOverlapping([start |-> startAt, end |-> endAt],
                                   [start |-> locks[i].periodStart, end |-> locks[i].periodEnd],
                                   FALSE)

\* slip: inactive locks block too
isPeriodLockedIgnoresActive(startAt, endAt, locks) ==
    \E i \in 1..Len(locks) :
        areIntervalsOverlapping([start |-> startAt, end |-> endAt],
                                [start |-> locks[i].periodStart, end |-> locks[i].periodEnd],
                                TRUE)

isPeriodLocked(startAt, endAt, locks) ==
    \E i \in 1..Len(locks) :
        /\ locks[i].isActive
        /\ areIntervalsOverlapping([start |-> startAt, end |-> endAt],
                                   [start |-> locks[i].periodStart, end |-> locks[i].periodEnd],
                                   TRUE)

\* slip: a rejected entry has no way back to DRAFT in the table
validTransitionsNoRedraft ==
    [DRAFT |-> <<SUBMITTED>>,
     SUBMITTED |-> <<APPROVED, REJECTED>>,
     APPROVED |-> <<LOCKED, REJECTED>>,
     REJECTED |-> <<SUBMITTED>>,
     LOCKED |-> <<BILLED>>,
     BILLED |-> <<>>]

validTransitions ==
    [DRAFT |-> <<SUBMITTED>>,
     SUBMITTED |-> <<APPROVED, REJECTED>>,
     APPROVED |-> <<LOCKED, REJECTED>>,
     REJECTED |-> <<DRAFT, SUBMITTED>>,
     LOCKED |-> <<BILLED>>,
     BILLED |-> <<>>]

validateStatusTransition(currentStatus, newStatus) ==
    LET allowed == validTransitions[currentStatus] IN
    IF ~Includes(allowed, newStatus)
    THEN [valid |-> FALSE,
          error |-> Some("Cannot transition from " \o currentStatus \o " to " \o newStatus)]
    ELSE [valid |-> TRUE, error |-> Undefined]

(* ------------------------------ workflows ------------------------------ *)
\* a call either returns { entries, auditLogs } or throws: nothing is returned then
Return(updatedEntries, auditLogs) ==
    [threw |-> FALSE, error |-> NoError, entries |-> updatedEntries, auditLogs |-> auditLogs]

Throw(error) ==
    [threw |-> TRUE, error |-> error, entries |-> <<>>, auditLogs |-> <<>>]

AuditLog(entityType, entityId, action, userId, metadata) ==
    [entityType |-> entityType, entityId |-> entityId, action |-> action,
     userId |-> userId, metadata |-> metadata]

\* slip: best effort, an entry that fails is skipped and the rest is returned
RECURSIVE submitTimeEntriesLoopBestEffort(_, _, _, _, _, _)
submitTimeEntriesLoopBestEffort(batch, context, locks, i, updatedEntries, auditLogs) ==
    IF i > Len(batch) THEN Return(updatedEntries, auditLogs)
    ELSE LET entry == batch[i] IN
         IF \/ ~(entry.status = DRAFT \/ entry.status = REJECTED)
            \/ \E k \in 1..Len(locks) :
                    /\ locks[k].isActive
                    /\ entry.startAt <= locks[k].periodEnd
                    /\ locks[k].periodStart <= entry.endAt
         THEN submitTimeEntriesLoopBestEffort(batch, context, locks, i + 1,
                                              updatedEntries, auditLogs)
         ELSE LET updatedEntry == [entry EXCEPT !.status = SUBMITTED,
                                                !.updatedAt = context.timestamp]
                  log == AuditLog("TimeEntry", entry.id, "SUBMIT", context.userId,
                                  [userRole |-> context.userRole,
                                   previousStatus |-> entry.status,
                                   newStatus |-> SUBMITTED])
              IN submitTimeEntriesLoopBestEffort(batch, context, locks, i + 1,
                                                 Append(updatedEntries, updatedEntry),
                                                 Append(auditLogs, log))

RECURSIVE submitTimeEntriesLoop(_, _, _, _, _, _)
submitTimeEntriesLoop(batch, context, locks, i, updatedEntries, auditLogs) ==
    IF i > Len(batch) THEN Return(updatedEntries, auditLogs)
    ELSE LET entry == batch[i] IN
         IF ~canSubmitTimeEntry(entry.status)
         THEN Throw(InvalidStatusTransitionError(entry.status, SUBMITTED))
         ELSE IF isPeriodLocked(entry.startAt, entry.endAt, locks)
         THEN Throw(PeriodLockedError(entry.startAt, entry.endAt))
         ELSE LET updatedEntry == [entry EXCEPT !.status = SUBMITTED,
                                                !.updatedAt = context.timestamp]
                  log == AuditLog("TimeEntry", entry.id, "SUBMIT", context.userId,
                                  [userRole |-> context.userRole,
                                   previousStatus |-> entry.status,
                                   newStatus |-> SUBMITTED])
              IN submitTimeEntriesLoop(batch, context, locks, i + 1,
                                       Append(updatedEntries, updatedEntry),
                                       Append(auditLogs, log))

submitTimeEntries(params) ==
    submitTimeEntriesLoop(params.entries, params.context, params.locks, 1, <<>>, <<>>)

RECURSIVE approveTimeEntriesLoop(_, _, _, _, _, _)
approveTimeEntriesLoop(batch, context, locks, i, updatedEntries, auditLogs) ==
    IF i > Len(batch) THEN Return(updatedEntries, auditLogs)
    ELSE LET entry == batch[i] IN
         IF ~canApproveTimeEntry(entry.status)
         THEN Throw(InvalidStatusTransitionError(entry.status, APPROVED))
         ELSE IF isPeriodLocked(entry.startAt, entry.endAt, locks)
         THEN Throw(PeriodLockedError(entry.startAt, entry.endAt))
         ELSE LET updatedEntry == [entry EXCEPT !.status = APPROVED,
                                                !.approvedBy = Some(context.userId),
                                                !.approvedAt = Some(context.timestamp),
                                                !.updatedAt = context.timestamp]
                  log == AuditLog("TimeEntry", entry.id, "APPROVE", context.userId,
                                  [userRole |-> context.userRole,
                                   previousStatus |-> entry.status,
                                   newStatus |-> APPROVED])
              IN approveTimeEntriesLoop(batch, context, locks, i + 1,
                                        Append(updatedEntries, updatedEntry),
                                        Append(auditLogs, log))

approveTimeEntries(params) ==
    approveTimeEntriesLoop(params.entries, params.context, params.locks, 1, <<>>, <<>>)

\* slip: a rejection wipes the approval it overturns
RECURSIVE rejectTimeEntriesLoopClearsApproval(_, _, _, _, _, _)
rejectTimeEntriesLoopClearsApproval(batch, reason, context, i, updatedEntries, auditLogs) ==
    IF i > Len(batch) THEN Return(updatedEntries, auditLogs)
    ELSE LET entry == batch[i] IN
         IF ~canRejectTimeEntry(entry.status)
         THEN Throw(InvalidStatusTransitionError(entry.status, REJECTED))
         ELSE LET updatedEntry == [entry EXCEPT !.status = REJECTED,
                                                !.approvedBy = Undefined,
                                                !.approvedAt = Undefined,
                                                !.rejectedBy = Some(context.userId),
                                                !.rejectedAt = Some(context.timestamp),
                                                !.rejectionReason = Some(reason),
                                                !.updatedAt = context.timestamp]
                  log == AuditLog("TimeEntry", entry.id, "REJECT", context.userId,
                                  [userRole |-> context.userRole,
                                   previousStatus |-> entry.status,
                                   newStatus |-> REJECTED,
                                   reason |-> reason])
              IN rejectTimeEntriesLoopClearsApproval(batch, reason, context, i + 1,
                                                     Append(updatedEntries, updatedEntry),
                                                     Append(auditLogs, log))

RECURSIVE rejectTimeEntriesLoop(_, _, _, _, _, _)
rejectTimeEntriesLoop(batch, reason, context, i, updatedEntries, auditLogs) ==
    IF i > Len(batch) THEN Return(updatedEntries, auditLogs)
    ELSE LET entry == batch[i] IN
         IF ~canRejectTimeEntry(entry.status)
         THEN Throw(InvalidStatusTransitionError(entry.status, REJECTED))
         ELSE LET updatedEntry == [entry EXCEPT !.status = REJECTED,
                                                !.rejectedBy = Some(context.userId),
                                                !.rejectedAt = Some(context.timestamp),
                                                !.rejectionReason = Some(reason),
                                                !.updatedAt = context.timestamp]
                  log == AuditLog("TimeEntry", entry.id, "REJECT", context.userId,
                                  [userRole |-> context.userRole,
                                   previousStatus |-> entry.status,
                                   newStatus |-> REJECTED,
                                   reason |-> reason])
              IN rejectTimeEntriesLoop(batch, reason, context, i + 1,
                                       Append(updatedEntries, updatedEntry),
                                       Append(auditLogs, log))

\* slip: the lock gate of submit and approve copied into reject
rejectTimeEntriesGated(params) ==
    IF \E i \in 1..Len(params.entries) :
          isPeriodLocked(params.entries[i].startAt, params.entries[i].endAt, params.locks)
    THEN Throw(PeriodLockedError(0, 0))
    ELSE rejectTimeEntriesLoop(params.entries, params.reason, params.context, 1, <<>>, <<>>)

\* slip: a rejection hands the entry back as a draft
rejectTimeEntriesRedraft(params) ==
    LET rejected == rejectTimeEntriesLoop(params.entries, params.reason, params.context,
                                          1, <<>>, <<>>)
    IN [rejected EXCEPT !.entries = [i \in 1..Len(rejected.entries) |->
                                        [rejected.entries[i] EXCEPT !.status = DRAFT]]]

rejectTimeEntries(params) ==
    rejectTimeEntriesLoop(params.entries, params.reason, params.context, 1, <<>>, <<>>)

RECURSIVE lockTimeEntriesLoop(_, _, _, _, _, _)
lockTimeEntriesLoop(batch, reason, context, i, updatedEntries, auditLogs) ==
    IF i > Len(batch) THEN Return(updatedEntries, auditLogs)
    ELSE LET entry == batch[i] IN
         IF ~canLockTimeEntry(entry.status)
         THEN Throw(InvalidStatusTransitionError(entry.status, LOCKED))
         ELSE LET updatedEntry == [entry EXCEPT !.status = LOCKED,
                                                !.lockedAt = Some(context.timestamp),
                                                !.updatedAt = context.timestamp]
                  log == AuditLog("TimeEntry", entry.id, "LOCK", context.userId,
                                  [userRole |-> context.userRole,
                                   previousStatus |-> entry.status,
                                   newStatus |-> LOCKED,
                                   reason |-> reason])
              IN lockTimeEntriesLoop(batch, reason, context, i + 1,
                                     Append(updatedEntries, updatedEntry),
                                     Append(auditLogs, log))

lockTimeEntries(params) ==
    lockTimeEntriesLoop(params.entries, params.reason, params.context, 1, <<>>, <<>>)

RECURSIVE billTimeEntriesLoop(_, _, _, _, _, _)
billTimeEntriesLoop(batch, invoiceId, context, i, updatedEntries, auditLogs) ==
    IF i > Len(batch) THEN Return(updatedEntries, auditLogs)
    ELSE LET entry == batch[i] IN
         IF entry.status # LOCKED
         THEN Throw(InvalidStatusTransitionError(entry.status, BILLED))
         ELSE LET updatedEntry == [entry EXCEPT !.status = BILLED,
                                                !.billedAt = Some(context.timestamp),
                                                !.invoiceId = Some(invoiceId),
                                                !.updatedAt = context.timestamp]
                  log == AuditLog("TimeEntry", entry.id, "BILL", context.userId,
                                  [userRole |-> context.userRole,
                                   previousStatus |-> entry.status,
                                   newStatus |-> BILLED,
                                   invoiceId |-> invoiceId])
              IN billTimeEntriesLoop(batch, invoiceId, context, i + 1,
                                     Append(updatedEntries, updatedEntry),
                                     Append(auditLogs, log))

billTimeEntries(params) ==
    billTimeEntriesLoop(params.entries, params.invoiceId, params.context, 1, <<>>, <<>>)

\* slip: the submit guard used as the filter, rejected entries are submitted too
IsDraftOrRejected(e) == canSubmitTimeEntry(e.status)

IsDraft(e) == e.status = DRAFT

IsNotDraft(e) == e.status # DRAFT

\* slip: only a DRAFT timesheet can be submitted
submitTimesheetDraftOnly(params) ==
    LET timesheet == params.timesheet
        context == params.context
        locks == params.locks
    IN IF timesheet.status # DRAFT
       THEN Throw(InvalidStatusTransitionError(timesheet.status, SUBMITTED))
       ELSE IF isPeriodLocked(timesheet.periodStart, timesheet.periodEnd, locks)
       THEN Throw(PeriodLockedError(timesheet.periodStart, timesheet.periodEnd))
       ELSE LET draftEntries == SelectSeq(params.entries, IsDraft)
                submitted == submitTimeEntries([entries |-> draftEntries,
                                                context |-> context,
                                                locks |-> locks])
            IN IF submitted.threw THEN submitted
               ELSE LET updatedTimesheet ==
                            [timesheet EXCEPT
                                !.status = SUBMITTED,
                                !.submittedAt = Some(context.timestamp),
                                !.entries = SelectSeq(params.entries, IsNotDraft)
                                                \o submitted.entries]
                        timesheetLog ==
                            AuditLog("Timesheet", timesheet.id, "SUBMIT", context.userId,
                                     [userRole |-> context.userRole,
                                      entriesSubmitted |-> Len(submitted.entries),
                                      weekStart |-> toISOString(timesheet.periodStart),
                                      weekEnd |-> toISOString(timesheet.periodEnd)])
                    IN [threw |-> FALSE, error |-> NoError,
                        timesheet |-> updatedTimesheet,
                        entries |-> updatedTimesheet.entries,
                        auditLogs |-> submitted.auditLogs \o <<timesheetLog>>]

submitTimesheet(params) ==
    LET timesheet == params.timesheet
        context == params.context
        locks == params.locks
    IN IF isPeriodLocked(timesheet.periodStart, timesheet.periodEnd, locks)
       THEN Throw(PeriodLockedError(timesheet.periodStart, timesheet.periodEnd))
       ELSE LET draftEntries == SelectSeq(params.entries, IsDraft)
                submitted == submitTimeEntries([entries |-> draftEntries,
                                                context |-> context,
                                                locks |-> locks])
            IN IF submitted.threw THEN submitted
               ELSE LET updatedTimesheet ==
                            [timesheet EXCEPT
                                !.status = SUBMITTED,
                                !.submittedAt = Some(context.timestamp),
                                !.entries = SelectSeq(params.entries, IsNotDraft)
                                                \o submitted.entries]
                        timesheetLog ==
                            AuditLog("Timesheet", timesheet.id, "SUBMIT", context.userId,
                                     [userRole |-> context.userRole,
                                      entriesSubmitted |-> Len(submitted.entries),
                                      weekStart |-> toISOString(timesheet.periodStart),
                                      weekEnd |-> toISOString(timesheet.periodEnd)])
                    IN [threw |-> FALSE, error |-> NoError,
                        timesheet |-> updatedTimesheet,
                        entries |-> updatedTimesheet.entries,
                        auditLogs |-> submitted.auditLogs \o <<timesheetLog>>]

(* ------------------------------ locks ---------------------------------- *)
\* JavaScript truthiness of an optional string: undefined and "" are falsy
Truthy(f) == f # Undefined /\ f # Some("")

\* no lock: the null a conflict check returns
Null == <<>>

\* a lock function either returns or throws
ReturnLock(lock, auditLog) ==
    [threw |-> FALSE, error |-> NoError, lock |-> lock, auditLog |-> auditLog]

ThrowLock(error) ==
    [threw |-> TRUE, error |-> error, lock |-> Null, auditLog |-> Null]

\* slip: a period that ends when it starts is let through
createTimeLockEndNotBefore(params, now) ==
    IF ~Truthy(params.projectId) /\ ~Truthy(params.clientId)
    THEN ThrowLock(ValidationError("Either projectId or clientId must be provided", Undefined))
    ELSE IF params.periodEnd < params.periodStart
    THEN ThrowLock(ValidationError("Period end must be after period start", Undefined))
    ELSE ReturnLock([projectId |-> params.projectId, clientId |-> params.clientId,
                     periodStart |-> params.periodStart, periodEnd |-> params.periodEnd,
                     reason |-> params.reason, lockedBy |-> params.lockedBy,
                     lockedAt |-> now, isActive |-> TRUE],
                    AuditLog("TimeLock", "", "CREATE", params.lockedBy,
                             [projectId |-> params.projectId, clientId |-> params.clientId,
                              periodStart |-> toISOString(params.periodStart),
                              periodEnd |-> toISOString(params.periodEnd),
                              reason |-> params.reason]))

\* slip: the scope is not validated
createTimeLockNoScopeCheck(params, now) ==
    IF params.periodEnd <= params.periodStart
    THEN ThrowLock(ValidationError("Period end must be after period start", Undefined))
    ELSE ReturnLock([projectId |-> params.projectId, clientId |-> params.clientId,
                     periodStart |-> params.periodStart, periodEnd |-> params.periodEnd,
                     reason |-> params.reason, lockedBy |-> params.lockedBy,
                     lockedAt |-> now, isActive |-> TRUE],
                    AuditLog("TimeLock", "", "CREATE", params.lockedBy,
                             [projectId |-> params.projectId, clientId |-> params.clientId,
                              periodStart |-> toISOString(params.periodStart),
                              periodEnd |-> toISOString(params.periodEnd),
                              reason |-> params.reason]))

\* now is the clock that new Date() reads
createTimeLock(params, now) ==
    IF ~Truthy(params.projectId) /\ ~Truthy(params.clientId)
    THEN ThrowLock(ValidationError("Either projectId or clientId must be provided", Undefined))
    ELSE IF params.periodEnd <= params.periodStart
    THEN ThrowLock(ValidationError("Period end must be after period start", Undefined))
    ELSE LET lock == [projectId |-> params.projectId,
                      clientId |-> params.clientId,
                      periodStart |-> params.periodStart,
                      periodEnd |-> params.periodEnd,
                      reason |-> params.reason,
                      lockedBy |-> params.lockedBy,
                      lockedAt |-> now,
                      isActive |-> TRUE]
             auditLog == AuditLog("TimeLock", "", "CREATE", params.lockedBy,
                                  [projectId |-> params.projectId,
                                   clientId |-> params.clientId,
                                   periodStart |-> toISOString(params.periodStart),
                                   periodEnd |-> toISOString(params.periodEnd),
                                   reason |-> params.reason])
         IN ReturnLock(lock, auditLog)

\* slip: the unlocked lock is stamped but left active
unlockTimeLockStaysActive(params, now) ==
    IF ~params.lock.isActive
    THEN ThrowLock(ValidationError("Lock is already inactive", Undefined))
    ELSE ReturnLock([params.lock EXCEPT !.unlockedBy = Some(params.unlockedBy),
                                        !.unlockedAt = Some(now)],
                    AuditLog("TimeLock", params.lock.id, "UNLOCK", params.unlockedBy,
                             [reason |-> params.reason,
                              projectId |-> params.lock.projectId,
                              clientId |-> params.lock.clientId]))

\* slip: the check that the lock is still active is missing
unlockTimeLockNoCheck(params, now) ==
    ReturnLock([params.lock EXCEPT !.isActive = FALSE,
                                   !.unlockedBy = Some(params.unlockedBy),
                                   !.unlockedAt = Some(now)],
               AuditLog("TimeLock", params.lock.id, "UNLOCK", params.unlockedBy,
                        [reason |-> params.reason,
                         projectId |-> params.lock.projectId,
                         clientId |-> params.lock.clientId]))

unlockTimeLock(params, now) ==
    IF ~params.lock.isActive
    THEN ThrowLock(ValidationError("Lock is already inactive", Undefined))
    ELSE LET unlockedLock == [params.lock EXCEPT !.isActive = FALSE,
                                                 !.unlockedBy = Some(params.unlockedBy),
                                                 !.unlockedAt = Some(now)]
             auditLog == AuditLog("TimeLock", params.lock.id, "UNLOCK", params.unlockedBy,
                                  [reason |-> params.reason,
                                   projectId |-> params.lock.projectId,
                                   clientId |-> params.lock.clientId])
         IN ReturnLock(unlockedLock, auditLog)

IsActive(lock) == lock.isActive

\* slip: no early return, the last conflicting lock wins
RECURSIVE checkEntryLockConflictLoopLast(_, _, _)
checkEntryLockConflictLoopLast(entry, activeLocks, i) ==
    IF i > Len(activeLocks) THEN Null
    ELSE LET lock == activeLocks[i]
             scopeMatch ==
                \/ Truthy(lock.projectId) /\ lock.projectId = Some(entry.projectId)
                \/ Truthy(lock.clientId) /\ lock.clientId = Some(entry.clientId)
             later == checkEntryLockConflictLoopLast(entry, activeLocks, i + 1)
         IN IF later # Null THEN later
            ELSE IF scopeMatch /\ areIntervalsOverlapping(
                        [start |-> entry.startAt, end |-> entry.endAt],
                        [start |-> lock.periodStart, end |-> lock.periodEnd], TRUE)
            THEN Some(lock)
            ELSE Null

RECURSIVE checkEntryLockConflictLoop(_, _, _)
checkEntryLockConflictLoop(entry, activeLocks, i) ==
    IF i > Len(activeLocks) THEN Null
    ELSE LET lock == activeLocks[i]
             scopeMatch ==
                \/ Truthy(lock.projectId) /\ lock.projectId = Some(entry.projectId)
                \/ Truthy(lock.clientId) /\ lock.clientId = Some(entry.clientId)
         IN IF ~scopeMatch THEN checkEntryLockConflictLoop(entry, activeLocks, i + 1)
            ELSE IF areIntervalsOverlapping(
                        [start |-> entry.startAt, end |-> entry.endAt],
                        [start |-> lock.periodStart, end |-> lock.periodEnd], TRUE)
            THEN Some(lock)
            ELSE checkEntryLockConflictLoop(entry, activeLocks, i + 1)

checkEntryLockConflict(entry, locks) ==
    checkEntryLockConflictLoop(entry, SelectSeq(locks, IsActive), 1)

\* slip: the client key is not compared
RECURSIVE checkPeriodLockConflictLoopProjectOnly(_, _, _, _, _, _)
checkPeriodLockConflictLoopProjectOnly(periodStart, periodEnd, projectId, clientId, activeLocks, i) ==
    IF i > Len(activeLocks) THEN Null
    ELSE LET lock == activeLocks[i]
             scopeMatch == Truthy(projectId) /\ lock.projectId = projectId
         IN IF scopeMatch /\ areIntervalsOverlapping(
                        [start |-> periodStart, end |-> periodEnd],
                        [start |-> lock.periodStart, end |-> lock.periodEnd], TRUE)
            THEN Some(lock)
            ELSE checkPeriodLockConflictLoopProjectOnly(periodStart, periodEnd, projectId,
                                                        clientId, activeLocks, i + 1)

RECURSIVE checkPeriodLockConflictLoop(_, _, _, _, _, _)
checkPeriodLockConflictLoop(periodStart, periodEnd, projectId, clientId, activeLocks, i) ==
    IF i > Len(activeLocks) THEN Null
    ELSE LET lock == activeLocks[i]
             scopeMatch ==
                \/ Truthy(projectId) /\ lock.projectId = projectId
                \/ Truthy(clientId) /\ lock.clientId = clientId
         IN IF ~scopeMatch
            THEN checkPeriodLockConflictLoop(periodStart, periodEnd, projectId, clientId,
                                             activeLocks, i + 1)
            ELSE IF areIntervalsOverlapping(
                        [start |-> periodStart, end |-> periodEnd],
                        [start |-> lock.periodStart, end |-> lock.periodEnd], TRUE)
            THEN Some(lock)
            ELSE checkPeriodLockConflictLoop(periodStart, periodEnd, projectId, clientId,
                                             activeLocks, i + 1)

checkPeriodLockConflict(periodStart, periodEnd, projectId, clientId, locks) ==
    checkPeriodLockConflictLoop(periodStart, periodEnd, projectId, clientId,
                                SelectSeq(locks, IsActive), 1)

\* slip: only the project key is compared
RECURSIVE validateLockOverlapLoopProjectOnly(_, _, _)
validateLockOverlapLoopProjectOnly(newLock, activeLocks, i) ==
    IF i > Len(activeLocks) THEN ReturnLock(Null, Null)
    ELSE LET lock == activeLocks[i]
             sameScope == Truthy(newLock.projectId) /\ lock.projectId = newLock.projectId
         IN IF sameScope /\ areIntervalsOverlapping(
                        [start |-> newLock.periodStart, end |-> newLock.periodEnd],
                        [start |-> lock.periodStart, end |-> lock.periodEnd], FALSE)
            THEN ThrowLock(ConflictError("Lock period overlaps with existing lock", Undefined))
            ELSE validateLockOverlapLoopProjectOnly(newLock, activeLocks, i + 1)

\* slip: the inclusive test of the conflict checks used for new locks too
RECURSIVE validateLockOverlapLoopInclusive(_, _, _)
validateLockOverlapLoopInclusive(newLock, activeLocks, i) ==
    IF i > Len(activeLocks) THEN ReturnLock(Null, Null)
    ELSE LET lock == activeLocks[i]
             sameScope ==
                \/ Truthy(newLock.projectId) /\ lock.projectId = newLock.projectId
                \/ Truthy(newLock.clientId) /\ lock.clientId = newLock.clientId
         IN IF sameScope /\ areIntervalsOverlapping(
                        [start |-> newLock.periodStart, end |-> newLock.periodEnd],
                        [start |-> lock.periodStart, end |-> lock.periodEnd], TRUE)
            THEN ThrowLock(ConflictError("Lock period overlaps with existing lock", Undefined))
            ELSE validateLockOverlapLoopInclusive(newLock, activeLocks, i + 1)

RECURSIVE validateLockOverlapLoop(_, _, _)
validateLockOverlapLoop(newLock, activeLocks, i) ==
    IF i > Len(activeLocks) THEN ReturnLock(Null, Null)
    ELSE LET lock == activeLocks[i]
             sameScope ==
                \/ Truthy(newLock.projectId) /\ lock.projectId = newLock.projectId
                \/ Truthy(newLock.clientId) /\ lock.clientId = newLock.clientId
         IN IF ~sameScope THEN validateLockOverlapLoop(newLock, activeLocks, i + 1)
            ELSE IF areIntervalsOverlapping(
                        [start |-> newLock.periodStart, end |-> newLock.periodEnd],
                        [start |-> lock.periodStart, end |-> lock.periodEnd], FALSE)
            THEN ThrowLock(ConflictError(
                    "Lock period overlaps with existing lock from "
                        \o toISOString(lock.periodStart) \o " to "
                        \o toISOString(lock.periodEnd), Undefined))
            ELSE validateLockOverlapLoop(newLock, activeLocks, i + 1)

validateLockOverlap(newLock, existingLocks) ==
    validateLockOverlapLoop(newLock, SelectSeq(existingLocks, IsActive), 1)

getAffectedEntries(lock, batch) ==
    LET affected(entry) ==
            LET scopeMatch ==
                    \/ Truthy(lock.projectId) /\ lock.projectId = Some(entry.projectId)
                    \/ Truthy(lock.clientId) /\ lock.clientId = Some(entry.clientId)
            IN IF ~scopeMatch THEN FALSE
               ELSE areIntervalsOverlapping(
                        [start |-> entry.startAt, end |-> entry.endAt],
                        [start |-> lock.periodStart, end |-> lock.periodEnd], TRUE)
    IN SelectSeq(batch, affected)

(* LockManager: its Map<string, TimeLock> is the list of its values in        *)
(* insertion order, one lock per key                                         *)
\* slip: Map.set replaced by a push, a known id is not replaced
MapSetAppend(map, lock) == Append(map, lock)

\* Map.prototype.set with key lock.id: a known key keeps its place
MapSet(map, lock) ==
    IF \E i \in 1..Len(map) : map[i].id = lock.id
    THEN [i \in 1..Len(map) |-> IF map[i].id = lock.id THEN lock ELSE map[i]]
    ELSE Append(map, lock)

\* Map.prototype.delete
MapDelete(map, lockId) ==
    LET keep(lock) == lock.id # lockId
    IN SelectSeq(map, keep)

\* constructor(locks): locks.forEach(lock => this.locks.set(lock.id, lock))
RECURSIVE LockManager(_)
LockManager(locks) ==
    IF locks = <<>> THEN <<>>
    ELSE MapSet(LockManager(SubSeq(locks, 1, Len(locks) - 1)), locks[Len(locks)])

addLock(map, lock) == MapSet(map, lock)

removeLock(map, lockId) == MapDelete(map, lockId)

getActiveLocks(map) == SelectSeq(map, IsActive)

isEntryLocked(map, entry) ==
    checkEntryLockConflict(entry, getActiveLocks(map)) # Null

\* LockManager.isPeriodLocked
managerIsPeriodLocked(map, periodStart, periodEnd, projectId, clientId) ==
    checkPeriodLockConflict(periodStart, periodEnd, projectId, clientId,
                            getActiveLocks(map)) # Null

getProjectLocks(map, projectId) ==
    LET ofProject(lock) == lock.projectId = Some(projectId)
    IN SelectSeq(getActiveLocks(map), ofProject)

getClientLocks(map, clientId) ==
    LET ofClient(lock) == lock.clientId = Some(clientId)
    IN SelectSeq(getActiveLocks(map), ofClient)

\* no call of a lock function outstanding
NoCall == [op |-> "none"]

\* two callers working on the store at once: neither has read anything yet
NoCallers ==
    [approve |-> [pc |-> 0, snapshot |-> <<>>, result |-> Return(<<>>, <<>>)],
     reject |-> [pc |-> 0, snapshot |-> <<>>, result |-> Return(<<>>, <<>>)],
     auditLogs |-> <<>>]

(* ------------------------------ the caller ----------------------------- *)
Batches == UNION {[1..n -> EntryIds] : n \in 0..MaxBatch}

Contexts == [userId : Users, userRole : UserRoles, timestamp : Timestamps]

LockSet == {l \in [periodStart : Dates, periodEnd : Dates, isActive : BOOLEAN] :
                l.periodStart <= l.periodEnd}

LockLists == UNION {[1..n -> LockSet] : n \in 0..MaxLocks}

\* the lock lists of the caller that carries entries through the workflow:
\* one-day locks on the first and on the last day of the entries
CallerLockSet ==
    {l \in LockSet : l.periodStart = l.periodEnd
                        /\ \/ l.periodStart = 0
                           \/ l.periodStart = 2 /\ l.isActive}

CallerLockLists == UNION {[1..n -> CallerLockSet] : n \in 0..MaxLocks}

TimesheetPeriods == {p \in [periodStart : Dates, periodEnd : Dates] :
                        p.periodStart = 0 /\ p.periodEnd >= 1}

\* a fresh entry as the developer creates it: DRAFT, no stage field set
NewEntry(id, projectId, startAt, endAt) ==
    [id |-> id, projectId |-> projectId, developerId |-> "dev-1", clientId |-> "client-1",
     startAt |-> startAt, endAt |-> endAt,
     status |-> DRAFT,
     approvedBy |-> Undefined, approvedAt |-> Undefined,
     rejectedBy |-> Undefined, rejectedAt |-> Undefined, rejectionReason |-> Undefined,
     lockedAt |-> Undefined, billedAt |-> Undefined, invoiceId |-> Undefined,
     createdAt |-> endAt, updatedAt |-> endAt]

\* the entries the caller reads and hands to a call
Snapshot(batch) == [i \in 1..Len(batch) |-> entries[batch[i]]]

\* slip: a version check on updatedAt, a result not newer than the stored entry
\* is dropped
StoreUnlessNewer(updated) ==
    [id \in EntryIds |->
        LET idx == {j \in 1..Len(updated) : updated[j].id = id}
        IN IF idx = {} THEN entries[id]
           ELSE LET latest == updated[CHOOSE j \in idx : \A k \in idx : k <= j]
                IN IF entries[id].updatedAt >= latest.updatedAt THEN entries[id]
                   ELSE latest]

\* the caller stores what a successful call returned, later results last
Store(updated) ==
    [id \in EntryIds |->
        LET idx == {j \in 1..Len(updated) : updated[j].id = id}
        IN IF idx = {} THEN entries[id]
           ELSE updated[CHOOSE j \in idx : \A k \in idx : k <= j]]

Call(op, input, context, locks, reason, invoiceId, timesheet, result) ==
    [op |-> op, input |-> input, context |-> context, locks |-> locks,
     reason |-> reason, invoiceId |-> invoiceId, timesheet |-> timesheet,
     result |-> result]

\* no call outstanding
Idle == Call("none", <<>>, Undefined, <<>>, Undefined, Undefined, Undefined,
             Return(<<>>, <<>>))

Init ==
    /\ entries = [id \in EntryIds |->
                    IF id = "entry-1" THEN NewEntry(id, "project-1", 0, 1)
                                      ELSE NewEntry(id, "project-2", 1, 2)]
    /\ last = Idle
    /\ lifecycle = [pc |-> 0, entry |-> NewEntry("entry-1", "project-1", 0, 1),
                    auditLogs |-> <<>>, invoiceId |-> Undefined, threw |-> FALSE]
    /\ timeLocks = <<>>
    /\ lockCall = NoCall
    /\ call = NoCall
    /\ callers = NoCallers

SubmitTimeEntriesWith(lockLists) ==
    /\ last.op = "none"
    /\ \E batch \in Batches, context \in Contexts, locks \in lockLists :
        LET input == Snapshot(batch)
            result == submitTimeEntries([entries |-> input, context |-> context,
                                         locks |-> locks])
        IN /\ last' = Call("submit", input, context, locks, Undefined, Undefined,
                           Undefined, result)
           /\ UNCHANGED <<entries, lifecycle, lockVars, call, callers>>

SubmitTimeEntries == SubmitTimeEntriesWith(CallerLockLists)

ApproveTimeEntriesWith(lockLists) ==
    /\ last.op = "none"
    /\ \E batch \in Batches, context \in Contexts, locks \in lockLists :
        LET input == Snapshot(batch)
            result == approveTimeEntries([entries |-> input, context |-> context,
                                          locks |-> locks])
        IN /\ last' = Call("approve", input, context, locks, Undefined, Undefined,
                           Undefined, result)
           /\ UNCHANGED <<entries, lifecycle, lockVars, call, callers>>

ApproveTimeEntries == ApproveTimeEntriesWith(CallerLockLists)

\* reject, lock and bill take no locks: the params object a caller passes may
\* carry the locks in force all the same, the function never reads them
RejectTimeEntriesWith(lockLists) ==
    /\ last.op = "none"
    /\ \E batch \in Batches, context \in Contexts, reason \in RejectReasons,
          locks \in lockLists :
        LET input == Snapshot(batch)
            result == rejectTimeEntries([entries |-> input, reason |-> reason,
                                         context |-> context, locks |-> locks])
        IN /\ last' = Call("reject", input, context, locks, Some(reason), Undefined,
                           Undefined, result)
           /\ UNCHANGED <<entries, lifecycle, lockVars, call, callers>>

RejectTimeEntries == RejectTimeEntriesWith({<<>>})

LockTimeEntriesWith(lockLists) ==
    /\ last.op = "none"
    /\ \E batch \in Batches, context \in Contexts, reason \in LockReasons,
          locks \in lockLists :
        LET input == Snapshot(batch)
            result == lockTimeEntries([entries |-> input, reason |-> reason,
                                       context |-> context, locks |-> locks])
        IN /\ last' = Call("lock", input, context, locks, reason, Undefined,
                           Undefined, result)
           /\ UNCHANGED <<entries, lifecycle, lockVars, call, callers>>

LockTimeEntries == LockTimeEntriesWith({<<>>})

BillTimeEntriesWith(lockLists) ==
    /\ last.op = "none"
    /\ \E batch \in Batches, context \in Contexts, invoiceId \in InvoiceIds,
          locks \in lockLists :
        LET input == Snapshot(batch)
            result == billTimeEntries([entries |-> input, invoiceId |-> invoiceId,
                                       context |-> context, locks |-> locks])
        IN /\ last' = Call("bill", input, context, locks, Undefined, Some(invoiceId),
                           Undefined, result)
           /\ UNCHANGED <<entries, lifecycle, lockVars, call, callers>>

BillTimeEntries == BillTimeEntriesWith({<<>>})

SubmitTimesheetWith(lockLists, statuses) ==
    /\ last.op = "none"
    /\ \E batch \in Batches, context \in Contexts, locks \in lockLists,
       period \in TimesheetPeriods, status \in statuses :
        LET input == Snapshot(batch)
            timesheet == [id |-> "timesheet-1", developerId |-> "dev-1",
                          periodStart |-> period.periodStart,
                          periodEnd |-> period.periodEnd,
                          status |-> status, submittedAt |-> Undefined,
                          entries |-> input]
            result == submitTimesheet([timesheet |-> timesheet, entries |-> input,
                                       context |-> context, locks |-> locks])
        IN /\ last' = Call("submitTimesheet", input, context, locks, Undefined,
                           Undefined, Some(timesheet), result)
           /\ UNCHANGED <<entries, lifecycle, lockVars, call, callers>>

SubmitTimesheet == SubmitTimesheetWith(CallerLockLists, TimeEntryStatus)

\* the caller stores the entries a successful call returned; a call that threw
\* returned nothing and nothing is stored
Persist ==
    /\ last.op \notin {"none", "validateStatusTransition"}
    /\ entries' = Store(last.result.entries)
    /\ last' = Idle
    /\ UNCHANGED <<lifecycle, lockVars, call, callers>>

\* the policy check on its own, for any pair of statuses
ValidateStatusTransition ==
    /\ last.op = "none"
    /\ \E currentStatus \in TimeEntryStatus, newStatus \in TimeEntryStatus :
        /\ last' = [Idle EXCEPT !.op = "validateStatusTransition",
                                !.input = <<currentStatus, newStatus>>,
                                !.result = validateStatusTransition(currentStatus, newStatus)]
        /\ UNCHANGED <<entries, lifecycle, lockVars, call, callers>>

\* a policy answer changes nothing
Discard ==
    /\ last.op = "validateStatusTransition"
    /\ last' = Idle
    /\ UNCHANGED <<entries, lifecycle, lockVars, call, callers>>

Next ==
    \/ SubmitTimeEntries
    \/ ApproveTimeEntries
    \/ RejectTimeEntries
    \/ LockTimeEntries
    \/ BillTimeEntries
    \/ SubmitTimesheet
    \/ ValidateStatusTransition
    \/ Persist
    \/ Discard

Spec == Init /\ [][Next]_vars

(* ------------- the lock gate, one call on entries built by hand -------- *)
\* an entry put directly into a status, as { ...sampleEntry, status }
Fixture(id, projectId, startAt, endAt, status) ==
    [NewEntry(id, projectId, startAt, endAt) EXCEPT !.status = status]

InitGate ==
    /\ \E status \in TimeEntryStatus, startAt \in Dates, endAt \in Dates :
        /\ startAt <= endAt
        /\ entries = [id \in EntryIds |->
                        IF id = "entry-1"
                        THEN Fixture(id, "project-1", startAt, endAt, status)
                        ELSE NewEntry(id, "project-2", 1, 2)]
    /\ last = Idle
    /\ lifecycle = [pc |-> 0, entry |-> NewEntry("entry-1", "project-1", 0, 1),
                    auditLogs |-> <<>>, invoiceId |-> Undefined, threw |-> FALSE]
    /\ timeLocks = <<>>
    /\ lockCall = NoCall
    /\ call = NoCall
    /\ callers = NoCallers

GateSubmitTimeEntries == SubmitTimeEntriesWith(LockLists)

GateApproveTimeEntries == ApproveTimeEntriesWith(LockLists)

GateSubmitTimesheet == SubmitTimesheetWith(LockLists, {DRAFT})

GateRejectTimeEntries == RejectTimeEntriesWith(LockLists)

GateLockTimeEntries == LockTimeEntriesWith(LockLists)

GateBillTimeEntries == BillTimeEntriesWith(LockLists)

NextGate ==
    \/ GateSubmitTimeEntries
    \/ GateApproveTimeEntries
    \/ GateSubmitTimesheet
    \/ GateRejectTimeEntries
    \/ GateLockTimeEntries
    \/ GateBillTimeEntries

SpecGate == InitGate /\ [][NextGate]_vars

(* ------------- the complete workflow, one entry carried through --------- *)
\* draft -> submitted -> approved -> locked -> billed, each call applied to the
\* entry the previous call returned, with no locks; the audit logs are collected
LifecycleContexts ==
    [userId : {"user-123", "user-456"}, userRole : UserRoles,
     timestamp : {MaxTime + 1, MaxTime + 2}]

LifecycleAdvance(result, invoiceId) ==
    IF result.threw
    THEN [lifecycle EXCEPT !.threw = TRUE]
    ELSE [lifecycle EXCEPT !.pc = @ + 1,
                           !.entry = result.entries[1],
                           !.auditLogs = @ \o result.auditLogs,
                           !.invoiceId = invoiceId]

LifecycleSubmit ==
    /\ lifecycle.pc = 0 /\ ~lifecycle.threw
    /\ \E context \in LifecycleContexts :
        lifecycle' = LifecycleAdvance(
            submitTimeEntries([entries |-> <<lifecycle.entry>>, context |-> context,
                               locks |-> <<>>]), Undefined)
    /\ UNCHANGED <<entries, last, lockVars, call, callers>>

LifecycleApprove ==
    /\ lifecycle.pc = 1 /\ ~lifecycle.threw
    /\ \E context \in LifecycleContexts :
        lifecycle' = LifecycleAdvance(
            approveTimeEntries([entries |-> <<lifecycle.entry>>, context |-> context,
                                locks |-> <<>>]), Undefined)
    /\ UNCHANGED <<entries, last, lockVars, call, callers>>

LifecycleLock ==
    /\ lifecycle.pc = 2 /\ ~lifecycle.threw
    /\ \E context \in LifecycleContexts, reason \in LockReasons :
        lifecycle' = LifecycleAdvance(
            lockTimeEntries([entries |-> <<lifecycle.entry>>, reason |-> reason,
                             context |-> context]), Undefined)
    /\ UNCHANGED <<entries, last, lockVars, call, callers>>

LifecycleBill ==
    /\ lifecycle.pc = 3 /\ ~lifecycle.threw
    /\ \E context \in LifecycleContexts, invoiceId \in InvoiceIds :
        lifecycle' = LifecycleAdvance(
            billTimeEntries([entries |-> <<lifecycle.entry>>, invoiceId |-> invoiceId,
                             context |-> context]), Some(invoiceId))
    /\ UNCHANGED <<entries, last, lockVars, call, callers>>

NextLifecycle ==
    \/ LifecycleSubmit
    \/ LifecycleApprove
    \/ LifecycleLock
    \/ LifecycleBill

SpecLifecycle == Init /\ [][NextLifecycle]_vars

(* ------------- the lock functions, one call on locks built by hand ------ *)
\* the scopes of the locks in a list: a project lock, a lock with both keys,
\* a client lock whose projectId is the empty string
TimeLockScopes ==
    {[projectId |-> Some("project-1"), clientId |-> Undefined],
     [projectId |-> Some("project-2"), clientId |-> Some("client-2")],
     [projectId |-> Some(""), clientId |-> Some("client-1")]}

\* a lock covers at least one day, as createTimeLock requires
LockPeriods == {p \in [periodStart : Dates, periodEnd : Dates] :
                    p.periodStart < p.periodEnd}

TimeLockShapes == [scope : TimeLockScopes, period : LockPeriods, isActive : BOOLEAN]

\* a stored lock as { ...sampleLock, id, projectId, clientId, isActive }
SampleLock(id, shape) ==
    [id |-> id, projectId |-> shape.scope.projectId, clientId |-> shape.scope.clientId,
     periodStart |-> shape.period.periodStart, periodEnd |-> shape.period.periodEnd,
     reason |-> "Monthly closing", lockedBy |-> "admin-1", lockedAt |-> MaxTime + 1,
     isActive |-> shape.isActive, unlockedBy |-> Undefined, unlockedAt |-> Undefined]

LockIds == [i \in 1..(MaxLockList + 1) |-> "lock-" \o ToString(i)]

\* lock lists of up to n locks, the i-th lock having the i-th id
TimeLockListsUpTo(n) ==
    {[i \in 1..Len(shapes) |-> SampleLock(LockIds[i], shapes[i])] :
        shapes \in UNION {[1..k -> TimeLockShapes] : k \in 0..n}}

TimeLockLists == TimeLockListsUpTo(MaxLockList)

\* the entries handed to a lock function: both projects of client-1, any interval
SampleEntries ==
    {Fixture("entry-1", s.projectId, s.startAt, s.endAt, APPROVED) :
        s \in {t \in [projectId : {"project-1", "project-2"},
                      startAt : Dates, endAt : Dates] : t.startAt <= t.endAt}}

InitLocks ==
    /\ entries = [id \in EntryIds |->
                    IF id = "entry-1" THEN NewEntry(id, "project-1", 0, 1)
                                      ELSE NewEntry(id, "project-2", 1, 2)]
    /\ last = Idle
    /\ lifecycle = [pc |-> 0, entry |-> NewEntry("entry-1", "project-1", 0, 1),
                    auditLogs |-> <<>>, invoiceId |-> Undefined, threw |-> FALSE]
    /\ timeLocks = <<>>
    /\ lockCall = NoCall
    /\ call = NoCall
    /\ callers = NoCallers

CheckEntryLockConflict ==
    /\ lockCall.op = "none"
    /\ \E entry \in SampleEntries, locks \in TimeLockLists :
          lockCall' = [op |-> "checkEntryLockConflict", entry |-> entry, locks |-> locks,
                       result |-> checkEntryLockConflict(entry, locks)]
    /\ UNCHANGED <<call, entries, last, lifecycle, timeLocks, callers>>

\* the period check made with the interval and the keys of an entry
CheckPeriodLockConflict ==
    /\ lockCall.op = "none"
    /\ \E entry \in SampleEntries, locks \in TimeLockLists :
          lockCall' = [op |-> "checkPeriodLockConflict", entry |-> entry, locks |-> locks,
                       result |-> checkPeriodLockConflict(
                                    entry.startAt, entry.endAt, Some(entry.projectId),
                                    Some(entry.clientId), locks)]
    /\ UNCHANGED <<call, entries, last, lifecycle, timeLocks, callers>>

\* one entry against one lock: the two lock checks and the entry overlap test
\* applied to the same two intervals
CheckBoundary ==
    /\ lockCall.op = "none"
    /\ \E entry \in SampleEntries, locks \in TimeLockListsUpTo(1) :
          /\ Len(locks) = 1
          /\ lockCall' =
                [op |-> "checkBoundary", entry |-> entry, locks |-> locks,
                 result |-> checkEntryLockConflict(entry, locks),
                 locked |-> isPeriodLocked(entry.startAt, entry.endAt, locks),
                 overlap |-> detectOverlap(
                                [startAt |-> entry.startAt, endAt |-> entry.endAt],
                                [startAt |-> locks[1].periodStart,
                                 endAt |-> locks[1].periodEnd])]
    /\ UNCHANGED <<call, entries, last, lifecycle, timeLocks, callers>>

\* the scopes asked for when a lock is created: none, an empty projectId, one
\* key, both keys
CreateScopes ==
    {[projectId |-> Undefined, clientId |-> Undefined],
     [projectId |-> Some(""), clientId |-> Undefined],
     [projectId |-> Some("project-1"), clientId |-> Undefined],
     [projectId |-> Undefined, clientId |-> Some("client-1")],
     [projectId |-> Some("project-1"), clientId |-> Some("client-1")],
     [projectId |-> Some("project-2"), clientId |-> Some("client-1")],
     [projectId |-> Some(""), clientId |-> Some("client-1")],
     [projectId |-> Some(""), clientId |-> Some("client-2")]}

\* the clock read by new Date()
Now == MaxTime + 1

\* the scopes of a lock to be created and checked against the existing locks
NewLockScopes ==
    {[projectId |-> Some("project-2"), clientId |-> Undefined],
     [projectId |-> Some("project-1"), clientId |-> Some("client-1")],
     [projectId |-> Some(""), clientId |-> Some("client-2")]}

CreateLockParams(scope, periodStart, periodEnd) ==
    [projectId |-> scope.projectId, clientId |-> scope.clientId,
     periodStart |-> periodStart, periodEnd |-> periodEnd,
     reason |-> "April closing", lockedBy |-> "admin-1"]

ValidateLockOverlap ==
    /\ lockCall.op = "none"
    /\ \E scope \in NewLockScopes, periodStart \in Dates, periodEnd \in Dates,
          existingLocks \in TimeLockLists :
          /\ periodStart <= periodEnd
          /\ LET newLock == CreateLockParams(scope, periodStart, periodEnd)
             IN lockCall' = [op |-> "validateLockOverlap", newLock |-> newLock,
                             locks |-> existingLocks,
                             result |-> validateLockOverlap(newLock, existingLocks)]
    /\ UNCHANGED <<call, entries, last, lifecycle, timeLocks, callers>>

\* entry lists of up to MaxBatch entries, the i-th entry having the i-th id
SampleBatches ==
    {[i \in 1..Len(batch) |-> [batch[i] EXCEPT !.id = "entry-" \o ToString(i)]] :
        batch \in UNION {[1..n -> SampleEntries] : n \in 0..MaxBatch}}

GetAffectedEntries ==
    /\ lockCall.op = "none"
    /\ \E batch \in SampleBatches, locks \in TimeLockListsUpTo(1) :
          /\ Len(locks) = 1
          /\ lockCall' = [op |-> "getAffectedEntries", lock |-> locks[1],
                          entries |-> batch,
                          result |-> getAffectedEntries(locks[1], batch)]
    /\ UNCHANGED <<call, entries, last, lifecycle, timeLocks, callers>>

CreateTimeLock ==
    /\ lockCall.op = "none"
    /\ \E scope \in CreateScopes, periodStart \in Dates, periodEnd \in Dates,
          lockedBy \in {"admin-1", "finance-1"} :
          LET params == [CreateLockParams(scope, periodStart, periodEnd)
                            EXCEPT !.lockedBy = lockedBy]
          IN lockCall' = [op |-> "createTimeLock", params |-> params,
                          result |-> createTimeLock(params, Now)]
    /\ UNCHANGED <<call, entries, last, lifecycle, timeLocks, callers>>

NextLocks ==
    \/ CreateTimeLock
    \/ CheckEntryLockConflict
    \/ CheckPeriodLockConflict
    \/ GetAffectedEntries
    \/ CheckBoundary
    \/ ValidateLockOverlap

SpecLocks == InitLocks /\ [][NextLocks]_vars

(* ------------- the lock collection: locks admitted and unlocked --------- *)
\* the collection gives the lock its id; the optional fields start undefined
StoredLock(id, lock) ==
    [id |-> id, projectId |-> lock.projectId, clientId |-> lock.clientId,
     periodStart |-> lock.periodStart, periodEnd |-> lock.periodEnd,
     reason |-> lock.reason, lockedBy |-> lock.lockedBy, lockedAt |-> lock.lockedAt,
     isActive |-> lock.isActive, unlockedBy |-> Undefined, unlockedAt |-> Undefined]

\* a lock is admitted only when createTimeLock succeeds and validateLockOverlap
\* against the collection does not throw
AdmitTimeLock ==
    /\ Len(timeLocks) < MaxStore
    /\ \E scope \in CreateScopes, periodStart \in Dates, periodEnd \in Dates :
          LET params == CreateLockParams(scope, periodStart, periodEnd)
              created == createTimeLock(params, Now)
          IN /\ ~created.threw
             /\ ~validateLockOverlap(params, timeLocks).threw
             /\ timeLocks' = Append(timeLocks,
                                    StoredLock("lock-" \o ToString(Len(timeLocks) + 1),
                                               created.lock))
    /\ lockCall' = NoCall
    /\ UNCHANGED <<call, entries, last, lifecycle, callers>>

\* unlockTimeLock is called on a lock of the collection, active or not; the
\* unlocked lock it returns is stored in the lock's place, and nothing is stored
\* when it throws
UnlockTimeLock ==
    /\ \E i \in 1..Len(timeLocks) :
          LET params == [lock |-> timeLocks[i], unlockedBy |-> "admin-2",
                         reason |-> Some("Need to add missing entries")]
              unlocked == unlockTimeLock(params, Now)
          IN /\ lockCall' = [op |-> "unlockTimeLock", index |-> i, params |-> params,
                             result |-> unlocked]
             /\ timeLocks' = IF unlocked.threw THEN timeLocks
                             ELSE [timeLocks EXCEPT ![i] = unlocked.lock]
    /\ UNCHANGED <<call, entries, last, lifecycle, callers>>

NextLockStore ==
    \/ AdmitTimeLock
    \/ UnlockTimeLock

SpecLockStore == InitLocks /\ [][NextLockStore]_vars

(* ------------- a lock unlocked and the refused call made again ---------- *)
\* submitTimeEntries or approveTimeEntries on one entry
GateCall(op, entry, context, locks) ==
    IF op = "submit"
    THEN submitTimeEntries([entries |-> <<entry>>, context |-> context, locks |-> locks])
    ELSE approveTimeEntries([entries |-> <<entry>>, context |-> context, locks |-> locks])

\* a call on an entry against a lock L alone or with one other lock before or
\* after it; L is unlocked and replaced in the list by the lock that
\* unlockTimeLock returns (the list stays as it is when unlockTimeLock
\* throws); then the call is made again and validateLockOverlap is asked
\* about a new lock with the scope and the period of L
ReleaseGate ==
    /\ lockCall.op = "none"
    /\ \E n \in 1..2, op \in {"submit", "approve"}, context \in Contexts,
          startAt \in Dates, endAt \in Dates :
        /\ startAt <= endAt
        /\ \E index \in 1..n, shapes \in [1..n -> TimeLockShapes] :
            LET locks == [i \in 1..n |-> SampleLock(LockIds[i], shapes[i])]
                entry == Fixture("entry-1", "project-1", startAt, endAt,
                                 IF op = "submit" THEN DRAFT ELSE SUBMITTED)
                unlocked == unlockTimeLock([lock |-> locks[index],
                                            unlockedBy |-> "admin-2",
                                            reason |-> Undefined], Now)
                released == IF unlocked.threw THEN locks
                            ELSE [locks EXCEPT ![index] = unlocked.lock]
                newLock == CreateLockParams(
                                [projectId |-> locks[index].projectId,
                                 clientId |-> locks[index].clientId],
                                locks[index].periodStart, locks[index].periodEnd)
            IN lockCall' = [op |-> "releaseGate", call |-> op, entry |-> entry,
                            locks |-> locks, index |-> index,
                            before |-> GateCall(op, entry, context, locks),
                            unlocked |-> unlocked, released |-> released,
                            after |-> GateCall(op, entry, context, released),
                            newLock |-> newLock,
                            accepted |-> validateLockOverlap(newLock, released)]
    /\ UNCHANGED <<call, entries, last, lifecycle, timeLocks, callers>>

\* the scoped conflict check, the period check of the workflow and the two
\* gated calls on the same entry and locks
CompareGates ==
    /\ lockCall.op = "none"
    /\ \E n \in 0..MaxLocks, context \in Contexts, status \in {DRAFT, SUBMITTED},
          sample \in SampleEntries :
        \E shapes \in [1..n -> TimeLockShapes] :
            LET locks == [i \in 1..n |-> SampleLock(LockIds[i], shapes[i])]
                entry == [sample EXCEPT !.status = status]
            IN lockCall' = [op |-> "compareGates", entry |-> entry, locks |-> locks,
                            conflict |-> checkEntryLockConflict(entry, locks),
                            locked |-> isPeriodLocked(entry.startAt, entry.endAt, locks),
                            submit |-> GateCall("submit", entry, context, locks),
                            approve |-> GateCall("approve", entry, context, locks)]
    /\ UNCHANGED <<call, entries, last, lifecycle, timeLocks, callers>>

NextRelease ==
    \/ ReleaseGate
    \/ CompareGates

SpecRelease == InitLocks /\ [][NextRelease]_vars

(* ------------- two callers, one entry: calls on a snapshot -------------- *)
\* one caller approves and one rejects the same stored entry; each reads the
\* entry, makes its call on what it read and stores what the call returned,
\* and the steps of the two interleave freely
InitStale ==
    /\ \E startAt \in Dates, endAt \in Dates :
        /\ startAt <= endAt
        /\ entries = [id \in EntryIds |->
                        IF id = "entry-1"
                        THEN Fixture(id, "project-1", startAt, endAt, SUBMITTED)
                        ELSE NewEntry(id, "project-2", 1, 2)]
    /\ last = Idle
    /\ lifecycle = [pc |-> 0, entry |-> NewEntry("entry-1", "project-1", 0, 1),
                    auditLogs |-> <<>>, invoiceId |-> Undefined, threw |-> FALSE]
    /\ timeLocks = <<>>
    /\ lockCall = NoCall
    /\ call = NoCall
    /\ callers = NoCallers

ReadSnapshot(caller) ==
    /\ callers[caller].pc = 0
    /\ callers' = [callers EXCEPT ![caller].pc = 1,
                                  ![caller].snapshot = Snapshot(<<"entry-1">>)]
    /\ UNCHANGED <<entries, last, lifecycle, lockVars, call>>

ReadForApprove == ReadSnapshot("approve")

ReadForReject == ReadSnapshot("reject")

ApproveSnapshot ==
    /\ callers.approve.pc = 1
    /\ \E context \in LifecycleContexts :
        callers' = [callers EXCEPT
                        !.approve.pc = 2,
                        !.approve.result =
                            approveTimeEntries([entries |-> callers.approve.snapshot,
                                                context |-> context,
                                                locks |-> <<>>])]
    /\ UNCHANGED <<entries, last, lifecycle, lockVars, call>>

RejectSnapshot ==
    /\ callers.reject.pc = 1
    /\ \E context \in LifecycleContexts, reason \in RejectReasons :
        callers' = [callers EXCEPT
                        !.reject.pc = 2,
                        !.reject.result =
                            rejectTimeEntries([entries |-> callers.reject.snapshot,
                                               reason |-> reason,
                                               context |-> context])]
    /\ UNCHANGED <<entries, last, lifecycle, lockVars, call>>

\* the caller stores the returned entry and the returned audit logs; a call
\* that threw returned nothing
WriteResult(caller) ==
    /\ callers[caller].pc = 2
    /\ entries' = Store(callers[caller].result.entries)
    /\ callers' = [callers EXCEPT
                        ![caller].pc = 3,
                        !.auditLogs = @ \o callers[caller].result.auditLogs]
    /\ UNCHANGED <<last, lifecycle, lockVars, call>>

WriteApproved == WriteResult("approve")

WriteRejected == WriteResult("reject")

NextStale ==
    \/ ReadForApprove
    \/ ReadForReject
    \/ ApproveSnapshot
    \/ RejectSnapshot
    \/ WriteApproved
    \/ WriteRejected

SpecStale == InitStale /\ [][NextStale]_vars

(* ------------- the lock manager: locks added, removed and queried ------- *)
ManagerLockIds == {"lock-1", "lock-2"}

InitManager ==
    /\ entries = [id \in EntryIds |->
                    IF id = "entry-1" THEN NewEntry(id, "project-1", 0, 1)
                                      ELSE NewEntry(id, "project-2", 1, 2)]
    /\ last = Idle
    /\ lifecycle = [pc |-> 0, entry |-> NewEntry("entry-1", "project-1", 0, 1),
                    auditLogs |-> <<>>, invoiceId |-> Undefined, threw |-> FALSE]
    /\ \E locks \in TimeLockListsUpTo(1) : timeLocks = LockManager(locks)
    /\ lockCall = NoCall
    /\ call = NoCall
    /\ callers = NoCallers

AddLock ==
    /\ \E id \in ManagerLockIds, shape \in TimeLockShapes :
          LET lock == SampleLock(id, shape)
          IN /\ timeLocks' = addLock(timeLocks, lock)
             /\ lockCall' = [op |-> "addLock", lock |-> lock]
    /\ UNCHANGED <<call, entries, last, lifecycle, callers>>

RemoveLock ==
    /\ \E id \in ManagerLockIds :
          /\ timeLocks' = removeLock(timeLocks, id)
          /\ lockCall' = [op |-> "removeLock", lockId |-> id]
    /\ UNCHANGED <<call, entries, last, lifecycle, callers>>

\* the queries of the manager, asked for one entry: its project, its client,
\* the entry itself and its interval with the project key only
QueryLocks ==
    /\ \E entry \in SampleEntries :
          lockCall' = [op |-> "query", entry |-> entry,
                       activeLocks |-> getActiveLocks(timeLocks),
                       projectLocks |-> getProjectLocks(timeLocks, entry.projectId),
                       clientLocks |-> getClientLocks(timeLocks, entry.clientId),
                       entryLocked |-> isEntryLocked(timeLocks, entry),
                       periodLocked |-> managerIsPeriodLocked(
                                            timeLocks, entry.startAt, entry.endAt,
                                            Some(entry.projectId), Undefined)]
    /\ UNCHANGED <<call, entries, last, lifecycle, timeLocks, callers>>

NextManager ==
    \/ AddLock
    \/ RemoveLock
    \/ QueryLocks

SpecManager == InitManager /\ [][NextManager]_vars

(* ------------------------------ durations ------------------------------ *)
\* longest duration handed to roundDuration, in minutes
MaxMinutes == 30

\* enum RoundingInterval: NONE, ONE_MINUTE, FIVE_MINUTES, SIX_MINUTES, FIFTEEN_MINUTES
RoundingInterval == {0, 1, 5, 6, 15}

FIFTEEN_MINUTES == 15

\* Math.round of the quotient n / d, d > 0: the nearest integer, a tie going up
MathRoundQuotient(n, d) == (2 * n + d) \div (2 * d)

\* slip: Math.floor instead of Math.round
roundDurationFloor(minutes, interval) ==
    IF interval = 0 THEN minutes ELSE (minutes \div interval) * interval

roundDuration(minutes, interval) ==
    IF interval = 0 THEN minutes
    ELSE MathRoundQuotient(minutes, interval) * interval

Abs(x) == IF x < 0 THEN -x ELSE x

millisecondsInMinute == 60000

\* date-fns differenceInMinutes: the difference in full minutes, truncated
\* toward zero; a Date is its time value in milliseconds
differenceInMinutes(dateLeft, dateRight) ==
    LET diff == dateLeft - dateRight
    IN IF diff >= 0 THEN diff \div millisecondsInMinute
       ELSE -((-diff) \div millisecondsInMinute)

calculateDuration(startAt, endAt) == Abs(differenceInMinutes(endAt, startAt))

validateDuration(startAt, endAt) ==
    LET duration == calculateDuration(startAt, endAt)
    IN IF duration <= 0
       THEN [valid |-> FALSE, error |-> Some("End time must be after start time")]
       ELSE IF duration > 1440
       THEN [valid |-> FALSE, error |-> Some("Time entry cannot exceed 24 hours")]
       ELSE IF duration < 1
       THEN [valid |-> FALSE, error |-> Some("Time entry must be at least 1 minute")]
       ELSE [valid |-> TRUE, error |-> Undefined]

(* ------------------------------ finance -------------------------------- *)
\* in the finance functions a Date is its time value in hours, counted from
\* 2024-03-10T00:00:00Z
\* a card passes the filter of resolveEffectiveRate
IsEffective(card, atDate) ==
    IF ~card.isActive THEN FALSE
    ELSE IF card.effectiveFrom > atDate THEN FALSE
    ELSE IF IsSet(card.effectiveTo) /\ card.effectiveTo[1] < atDate THEN FALSE
    ELSE TRUE

\* Array.prototype.sort by effectiveFrom, latest first; the sort is stable
RECURSIVE sortByEffectiveFromDesc(_)
sortByEffectiveFromDesc(cards) ==
    IF cards = <<>> THEN <<>>
    ELSE LET card == Head(cards)
             rest == sortByEffectiveFromDesc(Tail(cards))
             k == Cardinality({i \in 1..Len(rest) :
                                rest[i].effectiveFrom > card.effectiveFrom})
         IN SubSeq(rest, 1, k) \o <<card>> \o SubSeq(rest, k + 1, Len(rest))

\* array[0]: the first element, undefined for an empty array
First(array) == IF array = <<>> THEN Undefined ELSE Some(array[1])

\* slip: the tiers are looked up client first
resolveEffectiveRateClientFirst(entry, rateCards, atDate) ==
    LET active(card) == IsEffective(card, atDate)
        activeCards == SelectSeq(rateCards, active)
        isProject(card) == card.projectId = Some(entry.projectId)
        isClient(card) == card.clientId = Some(entry.clientId)
        isDeveloper(card) ==
            /\ card.developerId = Some(entry.developerId)
            /\ ~Truthy(card.projectId)
            /\ ~Truthy(card.clientId)
        projectRate == First(sortByEffectiveFromDesc(SelectSeq(activeCards, isProject)))
        clientRate == First(sortByEffectiveFromDesc(SelectSeq(activeCards, isClient)))
        developerRate == First(sortByEffectiveFromDesc(SelectSeq(activeCards, isDeveloper)))
    IN IF clientRate # Undefined THEN clientRate
       ELSE IF projectRate # Undefined THEN projectRate
       ELSE IF developerRate # Undefined THEN developerRate
       ELSE Null

\* slip: cards are not filtered by isActive and the effective dates
resolveEffectiveRateUnfiltered(entry, rateCards, atDate) ==
    LET isProject(card) == card.projectId = Some(entry.projectId)
        isClient(card) == card.clientId = Some(entry.clientId)
        isDeveloper(card) ==
            /\ card.developerId = Some(entry.developerId)
            /\ ~Truthy(card.projectId)
            /\ ~Truthy(card.clientId)
        projectRate == First(sortByEffectiveFromDesc(SelectSeq(rateCards, isProject)))
        clientRate == First(sortByEffectiveFromDesc(SelectSeq(rateCards, isClient)))
        developerRate == First(sortByEffectiveFromDesc(SelectSeq(rateCards, isDeveloper)))
    IN IF projectRate # Undefined THEN projectRate
       ELSE IF clientRate # Undefined THEN clientRate
       ELSE IF developerRate # Undefined THEN developerRate
       ELSE Null

\* the resolved card as Some(card), or Null
resolveEffectiveRate(entry, rateCards, atDate) ==
    LET active(card) == IsEffective(card, atDate)
        activeCards == SelectSeq(rateCards, active)
        isProject(card) == card.projectId = Some(entry.projectId)
        isClient(card) == card.clientId = Some(entry.clientId)
        isDeveloper(card) ==
            /\ card.developerId = Some(entry.developerId)
            /\ ~Truthy(card.projectId)
            /\ ~Truthy(card.clientId)
        projectRate == First(sortByEffectiveFromDesc(SelectSeq(activeCards, isProject)))
        clientRate == First(sortByEffectiveFromDesc(SelectSeq(activeCards, isClient)))
        developerRate == First(sortByEffectiveFromDesc(SelectSeq(activeCards, isDeveloper)))
    IN IF projectRate # Undefined THEN projectRate
       ELSE IF clientRate # Undefined THEN clientRate
       ELSE IF developerRate # Undefined THEN developerRate
       ELSE Null

\* slip: the cents are cut off, not rounded
EntryCostTruncated(entry, rate, roundedMinutes) ==
    [entryId |-> entry.id, projectId |-> entry.projectId,
     developerId |-> entry.developerId,
     originalMinutes |-> entry.durationMinutes, roundedMinutes |-> roundedMinutes,
     hourlyRate |-> rate.hourlyRate, currency |-> rate.currency,
     cost |-> (roundedMinutes * rate.hourlyRate * 100) \div 60]

\* the EntryCost of an entry at a rate; cost is kept in cents, which is
\* Math.round(hours * hourlyRate * 100) before the division by 100
EntryCost(entry, rate, roundedMinutes) ==
    [entryId |-> entry.id, projectId |-> entry.projectId,
     developerId |-> entry.developerId,
     originalMinutes |-> entry.durationMinutes, roundedMinutes |-> roundedMinutes,
     hourlyRate |-> rate.hourlyRate, currency |-> rate.currency,
     cost |-> MathRoundQuotient(roundedMinutes * rate.hourlyRate * 100, 60)]

\* slip: non-billable entries are costed too
RECURSIVE calculateEntryCostsLoopAll(_, _, _, _)
calculateEntryCostsLoopAll(entryList, rateCards, roundingInterval, atDate) ==
    IF entryList = <<>> THEN <<>>
    ELSE LET entry == Head(entryList)
             rest == calculateEntryCostsLoopAll(Tail(entryList), rateCards,
                                                roundingInterval, atDate)
             rate == resolveEffectiveRate(entry, rateCards, atDate)
         IN IF rate = Null THEN rest
            ELSE <<EntryCost(entry, rate[1],
                             roundDuration(entry.durationMinutes, roundingInterval))>>
                    \o rest

\* the loop over the entries, from the first one on
RECURSIVE calculateEntryCostsLoop(_, _, _, _)
calculateEntryCostsLoop(entryList, rateCards, roundingInterval, atDate) ==
    IF entryList = <<>> THEN <<>>
    ELSE LET entry == Head(entryList)
             rest == calculateEntryCostsLoop(Tail(entryList), rateCards,
                                             roundingInterval, atDate)
             rate == resolveEffectiveRate(entry, rateCards, atDate)
         IN IF ~entry.billable THEN rest
            ELSE IF rate = Null THEN rest
            ELSE <<EntryCost(entry, rate[1],
                             roundDuration(entry.durationMinutes, roundingInterval))>>
                    \o rest

\* params.roundingInterval and params.atDate are optional; now is new Date()
calculateEntryCosts(params, now) ==
    LET roundingInterval == IF params.roundingInterval = Undefined THEN FIFTEEN_MINUTES
                            ELSE params.roundingInterval[1]
        atDate == IF params.atDate = Undefined THEN now ELSE params.atDate[1]
    IN calculateEntryCostsLoop(params.entries, params.rateCards, roundingInterval, atDate)

\* costMap.get(entryId) after costs.forEach(cost => costMap.set(cost.entryId, cost)):
\* the last record of the entry, or undefined
CostMapGet(costs, entryId) ==
    LET idx == {i \in 1..Len(costs) : costs[i].entryId = entryId}
    IN IF idx = {} THEN Undefined
       ELSE Some(costs[CHOOSE i \in idx : \A j \in idx : j <= i])

\* the counters of a summary as it is created; totalCost is in cents
NewSummary(cost) ==
    [totalMinutes |-> 0, billableMinutes |-> 0, nonBillableMinutes |-> 0,
     totalCost |-> 0,
     currency |-> IF cost # Undefined /\ cost[1].currency # "" THEN cost[1].currency
                  ELSE "USD",
     entryCount |-> 0]

\* slip: the cost of a non-billable entry is added too
AddEntryAnyCost(summary, entry, cost) ==
    [summary EXCEPT
        !.totalMinutes = @ + entry.durationMinutes,
        !.billableMinutes = IF entry.billable THEN @ + entry.durationMinutes ELSE @,
        !.nonBillableMinutes = IF entry.billable THEN @ ELSE @ + entry.durationMinutes,
        !.totalCost = IF cost # Undefined THEN @ + cost[1].cost ELSE @,
        !.entryCount = @ + 1]

\* an entry added to the counters of its summary
AddEntry(summary, entry, cost) ==
    [summary EXCEPT
        !.totalMinutes = @ + entry.durationMinutes,
        !.billableMinutes = IF entry.billable THEN @ + entry.durationMinutes ELSE @,
        !.nonBillableMinutes = IF entry.billable THEN @ ELSE @ + entry.durationMinutes,
        !.totalCost = IF cost # Undefined /\ entry.billable THEN @ + cost[1].cost ELSE @,
        !.entryCount = @ + 1]

\* projectMap is the list of the Map's values in insertion order
RECURSIVE aggregateByProjectLoop(_, _, _, _)
aggregateByProjectLoop(entryList, costs, i, projectMap) ==
    IF i > Len(entryList) THEN projectMap
    ELSE LET entry == entryList[i]
             cost == CostMapGet(costs, entry.id)
             at == {k \in 1..Len(projectMap) : projectMap[k].projectId = entry.projectId}
             k == IF at = {} THEN Len(projectMap) + 1 ELSE CHOOSE j \in at : TRUE
             map == IF at # {} THEN projectMap
                    ELSE Append(projectMap,
                                [projectId |-> entry.projectId] @@ NewSummary(cost))
         IN aggregateByProjectLoop(entryList, costs, i + 1,
                                   [map EXCEPT ![k] = AddEntry(@, entry, cost)])

aggregateByProject(entryList, costs) == aggregateByProjectLoop(entryList, costs, 1, <<>>)

\* projectBreakdown[projectId] = (projectBreakdown[projectId] || 0) + minutes
AddToBreakdown(projectBreakdown, projectId, minutes) ==
    [p \in DOMAIN projectBreakdown \cup {projectId} |->
        (IF p \in DOMAIN projectBreakdown THEN projectBreakdown[p] ELSE 0)
            + (IF p = projectId THEN minutes ELSE 0)]

RECURSIVE aggregateByDeveloperLoop(_, _, _, _)
aggregateByDeveloperLoop(entryList, costs, i, developerMap) ==
    IF i > Len(entryList) THEN developerMap
    ELSE LET entry == entryList[i]
             cost == CostMapGet(costs, entry.id)
             at == {k \in 1..Len(developerMap) :
                        developerMap[k].developerId = entry.developerId}
             k == IF at = {} THEN Len(developerMap) + 1 ELSE CHOOSE j \in at : TRUE
             map == IF at # {} THEN developerMap
                    ELSE Append(developerMap,
                                [developerId |-> entry.developerId,
                                 projectBreakdown |-> <<>>] @@ NewSummary(cost))
             summary == AddEntry(map[k], entry, cost)
         IN aggregateByDeveloperLoop(entryList, costs, i + 1,
                [map EXCEPT ![k] =
                    [summary EXCEPT !.projectBreakdown =
                        AddToBreakdown(@, entry.projectId, entry.durationMinutes)]])

aggregateByDeveloper(entryList, costs) ==
    aggregateByDeveloperLoop(entryList, costs, 1, <<>>)

HoursPerDay == 24

\* entry.startAt.toISOString().split('T')[0]: the UTC day of startAt, kept as
\* the number of the day; the YYYY-MM-DD strings are ordered as these numbers
dateKey(startAt) == startAt \div HoursPerDay

\* Array.prototype.sort by date, earliest first
RECURSIVE sortByDate(_)
sortByDate(summaries) ==
    IF summaries = <<>> THEN <<>>
    ELSE LET summary == Head(summaries)
             rest == sortByDate(Tail(summaries))
             k == Cardinality({i \in 1..Len(rest) : rest[i].date < summary.date})
         IN SubSeq(rest, 1, k) \o <<summary>> \o SubSeq(rest, k + 1, Len(rest))

RECURSIVE aggregateByDayLoop(_, _, _, _)
aggregateByDayLoop(entryList, costs, i, dayMap) ==
    IF i > Len(entryList) THEN dayMap
    ELSE LET entry == entryList[i]
             cost == CostMapGet(costs, entry.id)
             key == dateKey(entry.startAt)
             at == {k \in 1..Len(dayMap) : dayMap[k].date = key}
             k == IF at = {} THEN Len(dayMap) + 1 ELSE CHOOSE j \in at : TRUE
             map == IF at # {} THEN dayMap
                    ELSE Append(dayMap, [date |-> key] @@ NewSummary(cost))
         IN aggregateByDayLoop(entryList, costs, i + 1,
                               [map EXCEPT ![k] = AddEntry(@, entry, cost)])

aggregateByDay(entryList, costs) ==
    sortByDate(aggregateByDayLoop(entryList, costs, 1, <<>>))

\* slip: submitted entries are taken as eligible
filterEntriesSubmitted(entryList, includeNonBillable) ==
    LET eligible(e) == e.status \in {SUBMITTED, APPROVED, LOCKED, BILLED}
        billable(e) == e.billable
        filteredEntries == SelectSeq(entryList, eligible)
    IN IF ~includeNonBillable THEN SelectSeq(filteredEntries, billable)
       ELSE filteredEntries

\* filteredEntries of generateFinanceExport
filterEntries(entryList, includeNonBillable) ==
    LET eligible(e) == e.status \in {APPROVED, LOCKED, BILLED}
        billable(e) == e.billable
        filteredEntries == SelectSeq(entryList, eligible)
    IN IF ~includeNonBillable THEN SelectSeq(filteredEntries, billable)
       ELSE filteredEntries

Min(set) == CHOOSE x \in set : \A y \in set : x <= y

Max(set) == CHOOSE x \in set : \A y \in set : y <= x

RECURSIVE reduceSum(_)
reduceSum(numbers) ==
    IF numbers = <<>> THEN 0
    ELSE reduceSum(SubSeq(numbers, 1, Len(numbers) - 1)) + numbers[Len(numbers)]

\* params.roundingInterval and params.includeNonBillable are optional; now is
\* new Date(); totalCost is in cents
generateFinanceExport(params, now) ==
    LET roundingInterval == IF params.roundingInterval = Undefined THEN FIFTEEN_MINUTES
                            ELSE params.roundingInterval[1]
        includeNonBillable == IF params.includeNonBillable = Undefined THEN FALSE
                              ELSE params.includeNonBillable[1]
        filteredEntries == filterEntries(params.entries, includeNonBillable)
        costs == calculateEntryCosts(
                    [entries |-> filteredEntries, rateCards |-> params.rateCards,
                     roundingInterval |-> Some(roundingInterval), atDate |-> Undefined],
                    now)
        billable(e) == e.billable
        minutes(list) == reduceSum([i \in 1..Len(list) |-> list[i].durationMinutes])
        totalCost == reduceSum([i \in 1..Len(costs) |-> costs[i].cost])
        totalMinutes == minutes(filteredEntries)
        billableMinutes == minutes(SelectSeq(filteredEntries, billable))
        dates == {filteredEntries[i].startAt : i \in 1..Len(filteredEntries)}
    IN [summary |->
            [totalEntries |-> Len(filteredEntries),
             totalMinutes |-> totalMinutes,
             billableMinutes |-> billableMinutes,
             nonBillableMinutes |-> totalMinutes - billableMinutes,
             totalCost |-> totalCost,
             currency |-> IF costs # <<>> /\ costs[1].currency # ""
                          THEN costs[1].currency ELSE "USD",
             dateRange |-> [from |-> IF dates # {} THEN Min(dates) ELSE now,
                            to |-> IF dates # {} THEN Max(dates) ELSE now]],
        costs |-> costs,
        aggregations |->
            [byProject |-> aggregateByProject(filteredEntries, costs),
             byDeveloper |-> aggregateByDeveloper(filteredEntries, costs),
             byDay |-> aggregateByDay(filteredEntries, costs)]]

\* Array.from(new Set(array)): each value once, in the order of first occurrence
RECURSIVE ArrayFromSet(_)
ArrayFromSet(array) ==
    IF array = <<>> THEN <<>>
    ELSE LET front == ArrayFromSet(SubSeq(array, 1, Len(array) - 1))
             x == array[Len(array)]
         IN IF \E i \in 1..Len(front) : front[i] = x THEN front ELSE Append(front, x)

\* slip: the costs of non-billable entries are invoiced too
mapToInvoiceAllEntries(entryList, costs, invoiceId, clientId) ==
    LET amount(e) == LET cost == CostMapGet(costs, e.id)
                     IN IF cost # Undefined THEN cost[1].cost ELSE 0
        dates == {entryList[i].startAt : i \in 1..Len(entryList)}
    IN [invoiceId |-> invoiceId, clientId |-> clientId,
        projectIds |-> ArrayFromSet([i \in 1..Len(entryList) |-> entryList[i].projectId]),
        dateRange |-> [from |-> Min(dates), to |-> Max(dates)],
        entries |-> entryList,
        totalAmount |-> reduceSum([i \in 1..Len(entryList) |-> amount(entryList[i])]),
        currency |-> IF costs # <<>> /\ costs[1].currency # ""
                     THEN costs[1].currency ELSE "USD"]

\* mapToInvoice of a non-empty entry list; totalAmount is in cents
mapToInvoice(entryList, costs, invoiceId, clientId) ==
    LET billable(e) == e.billable
        billed == SelectSeq(entryList, billable)
        amount(e) == LET cost == CostMapGet(costs, e.id)
                     IN IF cost # Undefined THEN cost[1].cost ELSE 0
        dates == {entryList[i].startAt : i \in 1..Len(entryList)}
    IN [invoiceId |-> invoiceId, clientId |-> clientId,
        projectIds |-> ArrayFromSet([i \in 1..Len(entryList) |-> entryList[i].projectId]),
        dateRange |-> [from |-> Min(dates), to |-> Max(dates)],
        entries |-> entryList,
        totalAmount |-> reduceSum([i \in 1..Len(billed) |-> amount(billed[i])]),
        currency |-> IF costs # <<>> /\ costs[1].currency # ""
                     THEN costs[1].currency ELSE "USD"]

(* ------------- the duration policies, one call each --------------------- *)
\* time values around one minute and around 24 hours after 09:00:00.000
NineOClock == 9 * 60 * millisecondsInMinute

Instants ==
    {NineOClock + d : d \in {0, 30000, 60000, 90000, 3600000,
                             86400000, 86430000, 86460000, 90000000}}

InitPolicies ==
    /\ entries = [id \in EntryIds |-> NewEntry(id, "project-1", 0, 1)]
    /\ last = Idle
    /\ lifecycle = [pc |-> 0, entry |-> NewEntry("entry-1", "project-1", 0, 1),
                    auditLogs |-> <<>>, invoiceId |-> Undefined, threw |-> FALSE]
    /\ timeLocks = <<>>
    /\ lockCall = NoCall
    /\ call = NoCall
    /\ callers = NoCallers

\* roundDuration, and roundDuration of its result
RoundDuration ==
    /\ call.op = "none"
    /\ \E minutes \in 0..MaxMinutes, interval \in RoundingInterval :
          LET result == roundDuration(minutes, interval)
          IN call' = [op |-> "roundDuration", minutes |-> minutes,
                      interval |-> interval, result |-> result,
                      again |-> roundDuration(result, interval)]
    /\ UNCHANGED <<entries, last, lifecycle, lockVars, callers>>

ValidateDuration ==
    /\ call.op = "none"
    /\ \E startAt \in Instants, endAt \in Instants :
          call' = [op |-> "validateDuration", startAt |-> startAt, endAt |-> endAt,
                   result |-> validateDuration(startAt, endAt)]
    /\ UNCHANGED <<entries, last, lifecycle, lockVars, callers>>

\* longest list of entries handed to findOverlaps
MaxOverlapEntries == 3

\* the intervals of entries, start <= end
EntryIntervals == {t \in [startAt : Dates, endAt : Dates] : t.startAt <= t.endAt}

\* detectOverlap of two entries, in both orders
DetectOverlap ==
    /\ call.op = "none"
    /\ \E entry1 \in EntryIntervals, entry2 \in EntryIntervals :
          call' = [op |-> "detectOverlap", entry1 |-> entry1, entry2 |-> entry2,
                   result |-> detectOverlap(entry1, entry2),
                   swapped |-> detectOverlap(entry2, entry1)]
    /\ UNCHANGED <<entries, last, lifecycle, lockVars, callers>>

\* findOverlaps of the entries '1', '2', ...
FindOverlaps ==
    /\ call.op = "none"
    /\ \E n \in 0..MaxOverlapEntries :
        \E intervals \in [1..n -> EntryIntervals] :
          LET entryList == [i \in 1..n |-> [id |-> ToString(i),
                                            startAt |-> intervals[i].startAt,
                                            endAt |-> intervals[i].endAt]]
          IN call' = [op |-> "findOverlaps", entries |-> entryList,
                      result |-> findOverlaps(entryList)]
    /\ UNCHANGED <<entries, last, lifecycle, lockVars, callers>>

NextPolicies ==
    \/ RoundDuration
    \/ ValidateDuration
    \/ DetectOverlap
    \/ FindOverlaps

SpecPolicies == InitPolicies /\ [][NextPolicies]_vars

(* ------------- the finance functions, one call each -------------------- *)
\* longest list of rate cards handed to resolveEffectiveRate
MaxCards == 2

\* the fields of a time entry that the finance functions read
FinanceEntry(id, projectId, developerId, clientId, startAt, durationMinutes, billable, status) ==
    [id |-> id, projectId |-> projectId, developerId |-> developerId,
     clientId |-> clientId, startAt |-> startAt,
     durationMinutes |-> durationMinutes, billable |-> billable, status |-> status]

\* sampleEntries[0]
SampleFinanceEntry ==
    FinanceEntry("entry-1", "project-1", "dev-1", "client-1", 9, 120, TRUE, APPROVED)

\* whom a card is for, with its rate: a project-wide card, a client card, a
\* developer default card, and a developer's card for another project
RateCardScopes ==
    {[developerId |-> Undefined, projectId |-> Some("project-1"), clientId |-> Undefined,
      hourlyRate |-> 150, currency |-> "USD"],
     [developerId |-> Some("dev-3"), projectId |-> Undefined, clientId |-> Some("client-1"),
      hourlyRate |-> 130, currency |-> "EUR"],
     [developerId |-> Some("dev-1"), projectId |-> Undefined, clientId |-> Undefined,
      hourlyRate |-> 100, currency |-> "USD"],
     [developerId |-> Some("dev-1"), projectId |-> Some("project-2"), clientId |-> Undefined,
      hourlyRate |-> 90, currency |-> "USD"]}

RateCardWindows ==
    {[effectiveFrom |-> d, effectiveTo |-> Undefined] : d \in Dates}
        \cup {[effectiveFrom |-> 0, effectiveTo |-> Some(1)]}

RateCardShapes == [scope : RateCardScopes, window : RateCardWindows, isActive : BOOLEAN]

RateCard(id, scope, window, isActive) ==
    [id |-> id, developerId |-> scope.developerId, projectId |-> scope.projectId,
     clientId |-> scope.clientId, hourlyRate |-> scope.hourlyRate,
     currency |-> scope.currency, effectiveFrom |-> window.effectiveFrom,
     effectiveTo |-> window.effectiveTo, isActive |-> isActive]

\* the cards rate-1, rate-2, ... of the given shapes
RateCardList(shapes) ==
    [i \in 1..Len(shapes) |-> RateCard("rate-" \o ToString(i), shapes[i].scope,
                                       shapes[i].window, shapes[i].isActive)]

InitFinance ==
    /\ entries = [id \in EntryIds |-> NewEntry(id, "project-1", 0, 1)]
    /\ last = Idle
    /\ lifecycle = [pc |-> 0, entry |-> NewEntry("entry-1", "project-1", 0, 1),
                    auditLogs |-> <<>>, invoiceId |-> Undefined, threw |-> FALSE]
    /\ timeLocks = <<>>
    /\ lockCall = NoCall
    /\ call = NoCall
    /\ callers = NoCallers

ResolveEffectiveRate ==
    /\ call.op = "none"
    /\ \E n \in 0..MaxCards, atDate \in Dates :
        \E shapes \in [1..n -> RateCardShapes] :
          LET rateCards == RateCardList(shapes)
          IN call' = [op |-> "resolveEffectiveRate", entry |-> SampleFinanceEntry,
                      rateCards |-> rateCards, atDate |-> atDate,
                      result |-> resolveEffectiveRate(SampleFinanceEntry, rateCards, atDate)]
    /\ UNCHANGED <<entries, last, lifecycle, lockVars, callers>>

\* whose entry it is: the sample entry's keys, a project and client without
\* cards, and keys no card knows
EntryKeys ==
    {[projectId |-> "project-1", developerId |-> "dev-1", clientId |-> "client-1"],
     [projectId |-> "project-3", developerId |-> "dev-1", clientId |-> "client-2"],
     [projectId |-> "project-unknown", developerId |-> "dev-unknown",
      clientId |-> "client-unknown"]}

CostEntryShapes == [keys : EntryKeys, billable : BOOLEAN, durationMinutes : {8, 95, 120}]

\* the approved entries entry-1, entry-2, ... of the given shapes, all
\* starting at 09:00
CostEntryList(shapes) ==
    [i \in 1..Len(shapes) |->
        FinanceEntry("entry-" \o ToString(i), shapes[i].keys.projectId,
                     shapes[i].keys.developerId, shapes[i].keys.clientId, 9,
                     shapes[i].durationMinutes, shapes[i].billable, APPROVED)]

\* rate-1, rate-3 and rate-4 of sampleRateCards, on the days 0, 1 and 0
SampleRateCards(isActive) ==
    <<[id |-> "rate-1", developerId |-> Some("dev-1"), projectId |-> Undefined,
       clientId |-> Undefined, hourlyRate |-> 100, currency |-> "USD",
       effectiveFrom |-> 0, effectiveTo |-> Undefined, isActive |-> isActive],
      [id |-> "rate-3", developerId |-> Undefined, projectId |-> Some("project-1"),
       clientId |-> Undefined, hourlyRate |-> 150, currency |-> "USD",
       effectiveFrom |-> 1, effectiveTo |-> Undefined, isActive |-> isActive],
      [id |-> "rate-4", developerId |-> Some("dev-3"), projectId |-> Undefined,
       clientId |-> Some("client-1"), hourlyRate |-> 130, currency |-> "EUR",
       effectiveFrom |-> 0, effectiveTo |-> Undefined, isActive |-> isActive]>>

SampleRateCardLists == {<<>>, SampleRateCards(TRUE), SampleRateCards(FALSE)}

CalculateEntryCosts ==
    /\ call.op = "none"
    /\ \E n \in 0..MaxBatch, rateCards \in SampleRateCardLists,
          roundingInterval \in {Undefined} \cup {Some(i) : i \in RoundingInterval},
          atDate \in {Undefined, Some(0)} :
        \E shapes \in [1..n -> CostEntryShapes] :
          LET params == [entries |-> CostEntryList(shapes), rateCards |-> rateCards,
                         roundingInterval |-> roundingInterval, atDate |-> atDate]
          IN call' = [op |-> "calculateEntryCosts", params |-> params, now |-> Now,
                      result |-> calculateEntryCosts(params, Now)]
    /\ UNCHANGED <<entries, last, lifecycle, lockVars, callers>>

\* the project, developer, start and duration of the sample entries, and of
\* an entry of the second developer on a third day
AggregateKeys ==
    {[projectId |-> "project-1", developerId |-> "dev-1", startAt |-> 9,
      durationMinutes |-> 120],
     [projectId |-> "project-1", developerId |-> "dev-2", startAt |-> 13,
      durationMinutes |-> 240],
     [projectId |-> "project-2", developerId |-> "dev-1", startAt |-> 33,
      durationMinutes |-> 60],
     [projectId |-> "project-2", developerId |-> "dev-2", startAt |-> 57,
      durationMinutes |-> 95]}

AggregateShapes == [keys : AggregateKeys, billable : BOOLEAN]

\* the approved entries entry-1, entry-2, ... of the given shapes
AggregateEntryList(shapes) ==
    [i \in 1..Len(shapes) |->
        FinanceEntry("entry-" \o ToString(i), shapes[i].keys.projectId,
                     shapes[i].keys.developerId, "client-1", shapes[i].keys.startAt,
                     shapes[i].keys.durationMinutes, shapes[i].billable, APPROVED)]

\* a cost list handed to an aggregation: none, the costs calculated for the
\* entries, these after an outdated record of entry-1 and one of an entry
\* not in the list, or a record for every entry, billable or not
CostLists(entryList) ==
    LET calculated == calculateEntryCosts(
                        [entries |-> entryList, rateCards |-> SampleRateCards(TRUE),
                         roundingInterval |-> Undefined, atDate |-> Undefined], Now)
        rate == SampleRateCards(TRUE)[1]
        outdated(id) == [EntryCost(SampleFinanceEntry, rate, 15) EXCEPT !.entryId = id]
    IN {<<>>, calculated,
        <<outdated("entry-1"), outdated("entry-9")>> \o calculated,
        [i \in 1..Len(entryList) |->
            EntryCost(entryList[i], rate, entryList[i].durationMinutes)]}

\* the three aggregations of the same entries and costs
Aggregate ==
    /\ call.op = "none"
    /\ \E n \in 0..MaxBatch :
        \E shapes \in [1..n -> AggregateShapes] :
          LET entryList == AggregateEntryList(shapes)
          IN \E costs \in CostLists(entryList) :
                call' = [op |-> "aggregate", entries |-> entryList, costs |-> costs,
                         byProject |-> aggregateByProject(entryList, costs),
                         byDeveloper |-> aggregateByDeveloper(entryList, costs),
                         byDay |-> aggregateByDay(entryList, costs)]
    /\ UNCHANGED <<entries, last, lifecycle, lockVars, callers>>

ExportShapes ==
    [status : TimeEntryStatus, billable : BOOLEAN,
     projectId : {"project-1", "project-2"}]

\* the entries entry-1, entry-2, ... of the given shapes, one a day at 09:00,
\* of 95, 155, ... minutes
ExportEntryList(shapes) ==
    [i \in 1..Len(shapes) |->
        FinanceEntry("entry-" \o ToString(i), shapes[i].projectId, "dev-1", "client-1",
                     9 + HoursPerDay * (i - 1), 60 * i + 35,
                     shapes[i].billable, shapes[i].status)]

GenerateFinanceExport ==
    /\ call.op = "none"
    /\ \E n \in 0..MaxBatch, includeNonBillable \in {Undefined, Some(TRUE), Some(FALSE)} :
        \E shapes \in [1..n -> ExportShapes] :
          LET params == [entries |-> ExportEntryList(shapes),
                         rateCards |-> SampleRateCards(TRUE),
                         roundingInterval |-> Undefined,
                         includeNonBillable |-> includeNonBillable]
          IN call' = [op |-> "generateFinanceExport", params |-> params, now |-> Now,
                      result |-> generateFinanceExport(params, Now)]
    /\ UNCHANGED <<entries, last, lifecycle, lockVars, callers>>

MapToInvoice ==
    /\ call.op = "none"
    /\ \E n \in 1..MaxBatch :
        \E shapes \in [1..n -> AggregateShapes] :
          LET entryList == AggregateEntryList(shapes)
          IN \E costs \in CostLists(entryList) :
                call' = [op |-> "mapToInvoice", entries |-> entryList, costs |-> costs,
                         result |-> mapToInvoice(entryList, costs, "invoice-123",
                                                 "client-1")]
    /\ UNCHANGED <<entries, last, lifecycle, lockVars, callers>>

NextFinance ==
    \/ MapToInvoice
    \/ ResolveEffectiveRate
    \/ CalculateEntryCosts
    \/ Aggregate
    \/ GenerateFinanceExport

SpecFinance == InitFinance /\ [][NextFinance]_vars

(* ------------------------------ properties ----------------------------- *)
WorkflowOps == {"submit", "approve", "reject", "lock", "bill"}

\* the status each operation is said to produce
ClaimedTarget ==
    [submit |-> SUBMITTED, approve |-> APPROVED, reject |-> REJECTED,
     lock |-> LOCKED, bill |-> BILLED]

\* the statuses each operation is said to accept
ClaimedGuard ==
    [submit |-> {DRAFT, REJECTED}, approve |-> {SUBMITTED},
     reject |-> {SUBMITTED, APPROVED}, lock |-> {APPROVED}, bill |-> {LOCKED}]

\* the transition table as the specification prints it
ClaimedValidPairs ==
    {<<DRAFT, SUBMITTED>>, <<SUBMITTED, APPROVED>>, <<SUBMITTED, REJECTED>>,
     <<APPROVED, LOCKED>>, <<APPROVED, REJECTED>>, <<REJECTED, DRAFT>>,
     <<REJECTED, SUBMITTED>>, <<LOCKED, BILLED>>}

\* an active lock whose [periodStart, periodEnd] meets [startAt, endAt], bounds included
ClaimedLocked(startAt, endAt, locks) ==
    \E i \in 1..Len(locks) :
        /\ locks[i].isActive = TRUE
        /\ ~(locks[i].periodEnd < startAt)
        /\ ~(endAt < locks[i].periodStart)

LastIsWorkflowCall == last.op \in WorkflowOps

LastSucceeded == LastIsWorkflowCall /\ ~last.result.threw

\* C1 (transition conformance): whenever submit, approve, reject, lock or bill
\* succeeds, every entry's (input status, output status) pair is one that
\* validateStatusTransition accepts, so every status change made by the engine
\* is in the transition table.
C1_TransitionConformance ==
    LastSucceeded =>
        /\ Len(last.result.entries) = Len(last.input)
        /\ \A i \in 1..Len(last.input) :
              validateStatusTransition(last.input[i].status,
                                       last.result.entries[i].status).valid

\* a rejected entry was resubmitted: the REJECTED -> SUBMITTED pair was taken
C1_Witness ==
    /\ last.op = "submit" /\ ~last.result.threw /\ Len(last.input) = 2
    /\ last.input[1].status = REJECTED
    /\ last.result.entries[1].status = SUBMITTED

\* C2 (transition table): validateStatusTransition(from, to) is valid exactly for
\* the eight listed pairs; for every other pair of the six statuses, self-loops
\* and every pair from BILLED included, it is invalid with the error text
\* "Cannot transition from <from> to <to>".
C2_TransitionTable ==
    last.op = "validateStatusTransition" =>
        LET from == last.input[1]
            to == last.input[2]
            answer == last.result
        IN /\ answer.valid <=> (<<from, to>> \in ClaimedValidPairs)
           /\ answer.valid => answer.error = Undefined
           /\ ~answer.valid =>
                /\ Len(answer.error) = 1
                /\ answer.error[1] = "Cannot transition from " \o from \o " to " \o to
           /\ (from = DRAFT /\ to = APPROVED) =>
                answer.error = <<"Cannot transition from DRAFT to APPROVED">>
           /\ from = to => ~answer.valid
           /\ from = BILLED => ~answer.valid

\* the terminal self-loop BILLED -> BILLED was asked and refused
C2_Witness ==
    /\ last.op = "validateStatusTransition"
    /\ last.input = <<BILLED, BILLED>>
    /\ ~last.result.valid

\* C3 (guard sets): with no locks, an operation on one entry succeeds iff the
\* entry's status is in the operation's guard set (submit: DRAFT, REJECTED;
\* approve: SUBMITTED; reject: SUBMITTED, APPROVED; lock: APPROVED; bill: LOCKED);
\* otherwise it throws InvalidStatusTransitionError, a ValidationError with status
\* code 400 whose details are currentStatus = the entry's status and targetStatus
\* = the operation's target.
C3_GuardSets ==
    (LastIsWorkflowCall /\ Len(last.input) = 1 /\ last.locks = <<>>) =>
        LET status == last.input[1].status
            result == last.result
        IN IF status \in ClaimedGuard[last.op]
           THEN /\ ~result.threw
                /\ Len(result.entries) = 1
                /\ result.entries[1].status = ClaimedTarget[last.op]
           ELSE /\ result.threw
                /\ result.error.name = "InvalidStatusTransitionError"
                /\ "ValidationError" \in result.error.isa
                /\ result.error.statusCode = 400
                /\ result.error.details = [currentStatus |-> status,
                                           targetStatus |-> ClaimedTarget[last.op]]

\* locking a billed entry was refused
C3_Witness ==
    /\ last.op = "lock" /\ Len(last.input) = 1 /\ last.input[1].status = BILLED
    /\ last.result.threw
    /\ last.result.error.details = [currentStatus |-> BILLED, targetStatus |-> LOCKED]

\* entry e fails operation op: its guard, or for submit/approve its lock check
ClaimedFails(op, e, locks) ==
    \/ e.status \notin ClaimedGuard[op]
    \/ op \in {"submit", "approve"} /\ ClaimedLocked(e.startAt, e.endAt, locks)

FirstFailing(op, batch, locks) ==
    CHOOSE i \in 1..Len(batch) :
        /\ ClaimedFails(op, batch[i], locks)
        /\ \A j \in 1..(i - 1) : ~ClaimedFails(op, batch[j], locks)

\* C4 (fail-fast batch): if at least one entry of the batch fails its guard or
\* (submit/approve) its lock check, the call throws and returns no updated entry
\* and no audit log, even when earlier entries were valid; the error is that of
\* the first failing entry in input order; no input entry is modified (the
\* caller's entries are still the ones it handed in).
C4_FailFastBatch ==
    (LastIsWorkflowCall
        /\ \E i \in 1..Len(last.input) : ClaimedFails(last.op, last.input[i], last.locks)) =>
        LET e == last.input[FirstFailing(last.op, last.input, last.locks)]
            result == last.result
        IN /\ result.threw
           /\ result.entries = <<>>
           /\ result.auditLogs = <<>>
           /\ IF e.status \notin ClaimedGuard[last.op]
              THEN /\ result.error.name = "InvalidStatusTransitionError"
                   /\ result.error.details.currentStatus = e.status
              ELSE /\ result.error.name = "PeriodLockedError"
                   /\ result.error.details.periodStart = toISOString(e.startAt)
                   /\ result.error.details.periodEnd = toISOString(e.endAt)
           /\ \A i \in 1..Len(last.input) : entries[last.input[i].id] = last.input[i]

\* a batch whose first entry was valid and whose second entry failed
C4_Witness ==
    /\ LastIsWorkflowCall /\ Len(last.input) = 2
    /\ last.input[1].id # last.input[2].id
    /\ ~ClaimedFails(last.op, last.input[1], last.locks)
    /\ ClaimedFails(last.op, last.input[2], last.locks)
    /\ last.result.threw

\* C5 (irreversibility after locking): on a LOCKED entry only bill succeeds, on a
\* BILLED entry no workflow operation succeeds (each throws
\* InvalidStatusTransitionError); so a BILLED entry's status and invoiceId never
\* change again.
C5_Irreversible ==
    /\ [](LastIsWorkflowCall =>
            /\ (\E i \in 1..Len(last.input) : last.input[i].status = BILLED)
                    => last.result.threw
            /\ (\E i \in 1..Len(last.input) : last.input[i].status = LOCKED)
                    => (last.op = "bill" \/ last.result.threw)
            /\ (Len(last.input) >= 1 /\ last.input[1].status = BILLED)
                    => last.result.error.name = "InvalidStatusTransitionError"
            /\ (Len(last.input) >= 1 /\ last.input[1].status = LOCKED /\ last.op # "bill")
                    => last.result.error.name = "InvalidStatusTransitionError")
    /\ [][\A id \in EntryIds :
            entries[id].status = BILLED =>
                /\ entries'[id].status = BILLED
                /\ entries'[id].invoiceId = entries[id].invoiceId
                /\ entries'[id].billedAt = entries[id].billedAt]_vars

\* a second bill, with another invoice, was tried on a billed entry and refused
C5_Witness ==
    /\ last.op = "bill" /\ Len(last.input) = 1
    /\ last.input[1].status = BILLED
    /\ last.input[1].invoiceId # last.invoiceId
    /\ last.result.threw

\* C6 (full lifecycle): from a DRAFT entry with no locks, submit, approve, lock
\* and bill applied in that order, each to the previous result, all succeed, give
\* exactly one audit log per call (SUBMIT, APPROVE, LOCK, BILL; four in total) and
\* end BILLED with the supplied invoiceId and billedAt set; approvedBy is unset
\* before approve, lockedAt before lock, billedAt and invoiceId before bill.
C6_FullLifecycle ==
    LET pc == lifecycle.pc
        e == lifecycle.entry
    IN /\ ~lifecycle.threw
       /\ Len(lifecycle.auditLogs) = pc
       /\ \A i \in 1..pc :
            /\ lifecycle.auditLogs[i].action = <<"SUBMIT", "APPROVE", "LOCK", "BILL">>[i]
            /\ lifecycle.auditLogs[i].entityId = e.id
       /\ e.status = <<DRAFT, SUBMITTED, APPROVED, LOCKED, BILLED>>[pc + 1]
       /\ pc = 4 => /\ IsSet(lifecycle.invoiceId)
                    /\ e.invoiceId = lifecycle.invoiceId
                    /\ IsSet(e.billedAt)
       /\ pc < 2 => ~IsSet(e.approvedBy) /\ ~IsSet(e.approvedAt)
       /\ pc < 3 => ~IsSet(e.lockedAt)
       /\ pc < 4 => ~IsSet(e.billedAt) /\ ~IsSet(e.invoiceId)

\* the four calls were made and the entry is billed
C6_Witness ==
    /\ lifecycle.pc = 4
    /\ lifecycle.entry.status = BILLED
    /\ Len(lifecycle.auditLogs) = 4

\* C7 (approval metadata matches the stage): in every state reachable from a
\* fresh DRAFT entry by successful workflow operations, approvedBy / approvedAt
\* are populated only when the status is APPROVED, LOCKED or BILLED.
C7_ApprovalMetadataMatchesStage ==
    \A id \in EntryIds :
        (IsSet(entries[id].approvedBy) \/ IsSet(entries[id].approvedAt)) =>
            entries[id].status \in {APPROVED, LOCKED, BILLED}

\* C8 (lock/bill metadata matches the stage): in every state reachable from a
\* fresh DRAFT entry by successful workflow operations, lockedAt is populated iff
\* the status is LOCKED or BILLED, billedAt and invoiceId iff it is BILLED, and a
\* BILLED entry has approvedBy, approvedAt and lockedAt populated.
C8_LockBillMetadataMatchesStage ==
    \A id \in EntryIds :
        LET e == entries[id] IN
        /\ IsSet(e.lockedAt) <=> e.status \in {LOCKED, BILLED}
        /\ IsSet(e.billedAt) <=> e.status = BILLED
        /\ IsSet(e.invoiceId) <=> e.status = BILLED
        /\ e.status = BILLED =>
              IsSet(e.approvedBy) /\ IsSet(e.approvedAt) /\ IsSet(e.lockedAt)

\* an entry that was once rejected has gone all the way to BILLED
C8_Witness ==
    \E id \in EntryIds :
        /\ entries[id].status = BILLED
        /\ IsSet(entries[id].rejectedBy)
        /\ IsSet(entries[id].invoiceId)

\* C9 (reject requires a reason): rejectTimeEntries with an empty reason fails for
\* SUBMITTED or APPROVED entries (nothing becomes REJECTED, no audit log); with a
\* non-empty reason it sets status REJECTED, rejectedBy = context.userId,
\* rejectedAt = context.timestamp, rejectionReason = reason and the REJECT audit
\* log carries the reason.
C9_RejectRequiresReason ==
    (last.op = "reject" /\ Len(last.input) >= 1
        /\ \A i \in 1..Len(last.input) : last.input[i].status \in {SUBMITTED, APPROVED}) =>
        IF last.reason = Some("")
        THEN /\ last.result.threw
             /\ last.result.entries = <<>>
             /\ last.result.auditLogs = <<>>
        ELSE /\ ~last.result.threw
             /\ \A i \in 1..Len(last.input) :
                  /\ last.result.entries[i].status = REJECTED
                  /\ last.result.entries[i].rejectedBy = Some(last.context.userId)
                  /\ last.result.entries[i].rejectedAt = Some(last.context.timestamp)
                  /\ last.result.entries[i].rejectionReason = last.reason
                  /\ last.result.auditLogs[i].action = "REJECT"
                  /\ Some(last.result.auditLogs[i].metadata.reason) = last.reason

\* C10 (lock gate): for an entry whose guard holds, submitTimeEntries and
\* approveTimeEntries throw PeriodLockedError (a ConflictError, status code 409,
\* carrying the entry's startAt / endAt) iff some supplied lock is active and its
\* [periodStart, periodEnd] meets [startAt, endAt], bounds included; inactive
\* locks never block; submitTimesheet throws PeriodLockedError carrying the
\* timesheet period whenever an active lock meets the timesheet period, before
\* any entry is processed.
C10_LockGate ==
    /\ (last.op \in {"submit", "approve"} /\ Len(last.input) = 1
            /\ last.input[1].status \in ClaimedGuard[last.op]) =>
          LET e == last.input[1]
              locked == ClaimedLocked(e.startAt, e.endAt, last.locks)
              err == last.result.error
          IN /\ (last.result.threw /\ err.name = "PeriodLockedError") <=> locked
             /\ ~locked => ~last.result.threw
             /\ locked =>
                  /\ "ConflictError" \in err.isa
                  /\ err.statusCode = 409
                  /\ err.details = [periodStart |-> toISOString(e.startAt),
                                    periodEnd |-> toISOString(e.endAt)]
                  /\ e.startAt = 0 => err.details.periodStart = "2024-03-01T00:00:00.000Z"
    /\ (last.op = "submitTimesheet"
            /\ ClaimedLocked(last.timesheet[1].periodStart, last.timesheet[1].periodEnd,
                             last.locks)) =>
          /\ last.result.threw
          /\ last.result.error.name = "PeriodLockedError"
          /\ last.result.error.statusCode = 409
          /\ last.result.error.details =
                [periodStart |-> toISOString(last.timesheet[1].periodStart),
                 periodEnd |-> toISOString(last.timesheet[1].periodEnd)]
    /\ (last.op \in {"submit", "approve", "submitTimesheet"}
            /\ \A i \in 1..Len(last.locks) : ~last.locks[i].isActive) =>
          last.result.error.name # "PeriodLockedError"

\* a submit was refused by an active lock that only touches the entry's end
C10_Witness ==
    /\ last.op = "submit" /\ Len(last.input) = 1
    /\ last.input[1].status = DRAFT
    /\ Len(last.locks) >= 1
    /\ \A i \in 1..Len(last.locks) :
          last.locks[i].isActive /\ last.locks[i].periodStart = last.input[1].endAt
    /\ last.result.threw
    /\ last.result.error.name = "PeriodLockedError"

\* C11 (no lock check in reject, lock, bill): rejectTimeEntries succeeds on every
\* SUBMITTED or APPROVED entry when a reason is given, lockTimeEntries on every
\* APPROVED entry and billTimeEntries on every LOCKED entry, whatever locks are
\* in force, an active lock that meets the entry's interval included; every
\* entry comes back in the operation's target status.
C11_NoLockCheck ==
    (/\ last.op \in {"reject", "lock", "bill"}
     /\ \A i \in 1..Len(last.input) : last.input[i].status \in ClaimedGuard[last.op]
     /\ last.op = "reject" => last.reason # Some("")) =>
        /\ ~last.result.threw
        /\ Len(last.result.entries) = Len(last.input)
        /\ \A i \in 1..Len(last.input) :
              /\ last.result.entries[i].id = last.input[i].id
              /\ last.result.entries[i].status = ClaimedTarget[last.op]

\* an APPROVED entry was rejected while an active lock covered its interval
C11_Witness ==
    /\ last.op = "reject" /\ Len(last.input) = 1
    /\ last.input[1].status = APPROVED
    /\ ClaimedLocked(last.input[1].startAt, last.input[1].endAt, last.locks)
    /\ ~last.result.threw
    /\ last.result.entries[1].status = REJECTED

\* the call that moves an entry on from its status, made with no locks
NextCall(entry) ==
    LET context == [userId |-> "user-1", userRole |-> "manager", timestamp |-> MaxTime + 1]
    IN CASE entry.status \in {DRAFT, REJECTED} ->
                submitTimeEntries([entries |-> <<entry>>, context |-> context, locks |-> <<>>])
         [] entry.status = SUBMITTED ->
                approveTimeEntries([entries |-> <<entry>>, context |-> context, locks |-> <<>>])
         [] entry.status = APPROVED ->
                lockTimeEntries([entries |-> <<entry>>, reason |-> Undefined,
                                 context |-> context])
         [] OTHER ->
                billTimeEntries([entries |-> <<entry>>, invoiceId |-> "invoice-1",
                                 context |-> context])

\* the statuses an entry passes through when it is carried on call by call,
\* until it is BILLED or a call throws
RECURSIVE CarriedStatuses(_, _)
CarriedStatuses(entry, calls) ==
    IF entry.status = BILLED \/ calls = 0 THEN <<entry.status>>
    ELSE LET result == NextCall(entry)
         IN IF result.threw THEN <<entry.status, "threw">>
            ELSE <<entry.status>> \o CarriedStatuses(result.entries[1], calls - 1)

\* C12 (rejection is not a dead end): submitTimeEntries succeeds on REJECTED
\* entries that no active lock meets and returns them SUBMITTED; and every entry
\* the engine has produced that is not BILLED can still be carried to BILLED by
\* submit (if DRAFT or REJECTED), approve, lock and bill, in at most four calls.
C12_RejectionNotDeadEnd ==
    /\ (/\ last.op = "submit"
         /\ \A i \in 1..Len(last.input) :
               /\ last.input[i].status = REJECTED
               /\ ~ClaimedLocked(last.input[i].startAt, last.input[i].endAt, last.locks)) =>
            /\ ~last.result.threw
            /\ Len(last.result.entries) = Len(last.input)
            /\ \A i \in 1..Len(last.input) : last.result.entries[i].status = SUBMITTED
    /\ \A id \in EntryIds :
          LET path == CarriedStatuses(entries[id], 4)
          IN /\ path[Len(path)] = BILLED
             /\ entries[id].status = REJECTED =>
                    path = <<REJECTED, SUBMITTED, APPROVED, LOCKED, BILLED>>

\* an entry rejected after its approval was submitted again and came back SUBMITTED
C12_Witness ==
    /\ last.op = "submit" /\ Len(last.input) = 1
    /\ last.input[1].status = REJECTED
    /\ IsSet(last.input[1].approvedAt) /\ IsSet(last.input[1].rejectedAt)
    /\ ~last.result.threw
    /\ last.result.entries[1].status = SUBMITTED

\* a lock and an entry match scope as the specification words it
ClaimedScopeMatch(lock, entry) ==
    \/ lock.projectId = Some(entry.projectId)
    \/ lock.clientId = Some(entry.clientId)

\* C13 (boundary asymmetry): when an entry meets an active lock of its scope
\* only at a boundary instant (the entry starts when the lock ends, or ends when
\* the lock starts; a zero-length entry at periodEnd included),
\* checkEntryLockConflict returns that lock and isPeriodLocked returns true,
\* while detectOverlap on the same two intervals returns false.
C13_BoundaryAsymmetry ==
    (lockCall.op = "checkBoundary") =>
        LET entry == lockCall.entry
            lock == lockCall.locks[1]
        IN (/\ lock.isActive
            /\ ClaimedScopeMatch(lock, entry)
            /\ entry.startAt = lock.periodEnd \/ entry.endAt = lock.periodStart) =>
                /\ lockCall.result = Some(lock)
                /\ lockCall.locked = TRUE
                /\ lockCall.overlap = FALSE

\* a zero-length entry exactly at the end of an active lock of its project
C13_Witness ==
    /\ lockCall.op = "checkBoundary"
    /\ lockCall.locks[1].isActive
    /\ lockCall.locks[1].projectId = Some(lockCall.entry.projectId)
    /\ lockCall.entry.startAt = lockCall.locks[1].periodEnd
    /\ lockCall.entry.endAt = lockCall.locks[1].periodEnd
    /\ lockCall.result = Some(lockCall.locks[1])
    /\ lockCall.locked /\ ~lockCall.overlap

\* two locks have the same scope as the specification words it
ClaimedSameScope(newLock, lock) ==
    \/ newLock.projectId = lock.projectId /\ newLock.projectId \notin {Undefined, Some("")}
    \/ newLock.clientId = lock.clientId /\ newLock.clientId \notin {Undefined, Some("")}

\* two periods overlap, bounds excluded
ClaimedExclusiveOverlap(a, b) ==
    a.periodStart < b.periodEnd /\ b.periodStart < a.periodEnd

\* C14 (lock overlap validation): validateLockOverlap throws ConflictError iff
\* some existing lock is active, has the same scope as the new lock (equal
\* non-empty projectId or equal non-empty clientId) and overlaps it with
\* exclusive bounds; it throws nothing else.  So same-project locks that only
\* touch do not conflict, locks of different scopes never conflict and inactive
\* locks are ignored.
C14_ValidateLockOverlap ==
    (lockCall.op = "validateLockOverlap") =>
        LET newLock == lockCall.newLock
            conflicting == {i \in 1..Len(lockCall.locks) :
                              /\ lockCall.locks[i].isActive
                              /\ ClaimedSameScope(newLock, lockCall.locks[i])
                              /\ ClaimedExclusiveOverlap(newLock, lockCall.locks[i])}
        IN /\ lockCall.result.threw <=> conflicting # {}
           /\ lockCall.result.threw =>
                 /\ lockCall.result.error.name = "ConflictError"
                 /\ lockCall.result.error.statusCode = 409

\* the new lock only touches the first lock of its project and is refused
\* because of the second one, a lock of its client that it overlaps
C14_Witness ==
    /\ lockCall.op = "validateLockOverlap"
    /\ Len(lockCall.locks) = 2
    /\ lockCall.locks[1].isActive
    /\ lockCall.locks[1].projectId = lockCall.newLock.projectId
    /\ lockCall.locks[1].periodEnd = lockCall.newLock.periodStart
    /\ lockCall.locks[2].isActive
    /\ lockCall.locks[2].clientId = lockCall.newLock.clientId
    /\ ClaimedExclusiveOverlap(lockCall.newLock, lockCall.locks[2])
    /\ lockCall.result.threw
    /\ lockCall.result.error.name = "ConflictError"

\* C15 (overlap-free active locks): when locks enter the collection only
\* through createTimeLock and validateLockOverlap and leave the active set only
\* through unlockTimeLock, no two active locks that share a (non-empty)
\* projectId or a (non-empty) clientId overlap with exclusive bounds.
C15_ActiveLocksOverlapFree ==
    \A i \in 1..Len(timeLocks), j \in 1..Len(timeLocks) :
        (/\ i # j
         /\ timeLocks[i].isActive /\ timeLocks[j].isActive
         /\ ClaimedSameScope(timeLocks[i], timeLocks[j])) =>
            ~ClaimedExclusiveOverlap(timeLocks[i], timeLocks[j])

\* an overlapping lock of the same client was admitted once the first was unlocked
C15_Witness ==
    /\ Len(timeLocks) = 2
    /\ ~timeLocks[1].isActive /\ timeLocks[2].isActive
    /\ IsSet(timeLocks[1].unlockedAt)
    /\ timeLocks[1].clientId = timeLocks[2].clientId
    /\ timeLocks[1].clientId = Some("client-1")
    /\ ClaimedExclusiveOverlap(timeLocks[1], timeLocks[2])

\* two intervals overlap, bounds included
ClaimedInclusiveOverlap(entry, lock) ==
    entry.startAt <= lock.periodEnd /\ lock.periodStart <= entry.endAt

\* the positions of the locks that are active, match the entry's scope and
\* meet its interval
ClaimedConflicts(entry, locks) ==
    {i \in 1..Len(locks) :
        /\ locks[i].isActive
        /\ ClaimedScopeMatch(locks[i], entry)
        /\ ClaimedInclusiveOverlap(entry, locks[i])}

\* the first lock in input order among the conflicting ones, or null
ClaimedConflict(entry, locks) ==
    LET conflicts == ClaimedConflicts(entry, locks)
    IN IF conflicts = {} THEN Null
       ELSE Some(locks[CHOOSE i \in conflicts : \A j \in conflicts : i <= j])

\* C16 (entry conflict check): checkEntryLockConflict returns the first lock in
\* input order that is active, matches the entry's scope (same projectId, or
\* same clientId) and meets [startAt, endAt] with bounds included; it returns
\* null iff there is no such lock.
C16_CheckEntryLockConflict ==
    (lockCall.op = "checkEntryLockConflict") =>
        /\ lockCall.result = ClaimedConflict(lockCall.entry, lockCall.locks)
        /\ lockCall.result = Null <=> ClaimedConflicts(lockCall.entry, lockCall.locks) = {}

\* two active locks conflict with the entry, the second one a client lock, and
\* the first one is returned
C16_Witness ==
    /\ lockCall.op = "checkEntryLockConflict"
    /\ Len(lockCall.locks) = 2
    /\ ClaimedConflicts(lockCall.entry, lockCall.locks) = {1, 2}
    /\ lockCall.locks[2].clientId = Some(lockCall.entry.clientId)
    /\ lockCall.locks[2].projectId # Some(lockCall.entry.projectId)
    /\ lockCall.result = Some(lockCall.locks[1])
    /\ lockCall.result # Some(lockCall.locks[2])

\* C17 (entry check and period check agree): checkPeriodLockConflict called with
\* an entry's startAt, endAt, projectId and clientId returns the same lock, or
\* null, as checkEntryLockConflict returns for that entry and the same locks.
C17_PeriodCheckAgrees ==
    (lockCall.op = "checkPeriodLockConflict") =>
        lockCall.result = checkEntryLockConflict(lockCall.entry, lockCall.locks)

\* the period check found a client lock behind a lock of another project
C17_Witness ==
    /\ lockCall.op = "checkPeriodLockConflict"
    /\ Len(lockCall.locks) = 2
    /\ lockCall.locks[1].isActive
    /\ ~ClaimedScopeMatch(lockCall.locks[1], lockCall.entry)
    /\ lockCall.locks[2].projectId # Some(lockCall.entry.projectId)
    /\ lockCall.result = Some(lockCall.locks[2])

\* C18 (affected entries agree with the entry conflict check): for every lock L,
\* active or inactive, getAffectedEntries(L, entries) is the list, in input
\* order, of the entries e for which checkEntryLockConflict(e, [L]) returns L.
C18_AffectedEntriesAgree ==
    (lockCall.op = "getAffectedEntries") =>
        LET lock == lockCall.lock
            conflicts(entry) == checkEntryLockConflict(entry, <<lock>>) = Some(lock)
        IN lockCall.result = SelectSeq(lockCall.entries, conflicts)

\* C19 (lock creation): createTimeLock throws ValidationError when neither
\* projectId nor clientId is given (undefined or empty) and when
\* periodEnd <= periodStart; otherwise it returns an active lock with the given
\* scope, period, reason and lockedBy and a CREATE audit log for entityType
\* TimeLock with userId = lockedBy; so every lock it returns has
\* periodEnd > periodStart.
C19_CreateTimeLock ==
    (lockCall.op = "createTimeLock") =>
        LET params == lockCall.params
            result == lockCall.result
            noScope == ~Truthy(params.projectId) /\ ~Truthy(params.clientId)
            badPeriod == params.periodEnd <= params.periodStart
        IN /\ (noScope \/ badPeriod) =>
                 /\ result.threw
                 /\ result.error.name = "ValidationError"
                 /\ result.error.statusCode = 400
           /\ ~(noScope \/ badPeriod) =>
                 /\ ~result.threw
                 /\ result.lock.isActive = TRUE
                 /\ result.lock.projectId = params.projectId
                 /\ result.lock.clientId = params.clientId
                 /\ result.lock.periodStart = params.periodStart
                 /\ result.lock.periodEnd = params.periodEnd
                 /\ result.lock.reason = params.reason
                 /\ result.lock.lockedBy = params.lockedBy
                 /\ result.auditLog.action = "CREATE"
                 /\ result.auditLog.entityType = "TimeLock"
                 /\ result.auditLog.userId = params.lockedBy
           /\ ~result.threw => result.lock.periodEnd > result.lock.periodStart

\* a client lock was created by finance-1
C19_Witness ==
    /\ lockCall.op = "createTimeLock"
    /\ ~lockCall.result.threw
    /\ lockCall.result.lock.clientId = Some("client-1")
    /\ lockCall.result.lock.projectId = Undefined
    /\ lockCall.result.lock.isActive
    /\ lockCall.result.auditLog.userId = "finance-1"

\* the keys of a lock that are set
ScopeKeys(lock) ==
    {k \in {"projectId", "clientId"} : Truthy(lock[k])}

\* C20 as stated (scope is exactly one of project or client): every lock
\* createTimeLock returns has exactly one of projectId and clientId set.
C20_ScopeExactlyOne ==
    (lockCall.op = "createTimeLock" /\ ~lockCall.result.threw) =>
        Cardinality(ScopeKeys(lockCall.result.lock)) = 1

\* C20 as amended (scope is at least one of project or client): every lock
\* createTimeLock returns has projectId or clientId set, never neither; both
\* may be set.
C20_ScopeAtLeastOne ==
    (lockCall.op = "createTimeLock" /\ ~lockCall.result.threw) =>
        Cardinality(ScopeKeys(lockCall.result.lock)) >= 1

\* a lock was created with both keys set
C20_Witness ==
    /\ lockCall.op = "createTimeLock"
    /\ ~lockCall.result.threw
    /\ ScopeKeys(lockCall.result.lock) = {"projectId", "clientId"}

\* C21 (unlock is one-way and one-time): unlockTimeLock on an active lock
\* returns the lock with isActive = false, unlockedBy and unlockedAt set and
\* every other field as it was, plus an UNLOCK audit log with entityId = lock.id;
\* the lock handed in keeps its value; on an inactive lock it throws
\* ValidationError; and a lock of the collection that is inactive stays in the
\* collection as it is, inactive, whatever is created or unlocked afterwards.
C21_UnlockOneWay ==
    /\ [](lockCall.op = "unlockTimeLock" =>
            LET lock == lockCall.params.lock
                result == lockCall.result
            IN /\ lock.isActive =>
                    /\ ~result.threw
                    /\ result.lock = [lock EXCEPT !.isActive = FALSE,
                                                   !.unlockedBy = Some(lockCall.params.unlockedBy),
                                                   !.unlockedAt = Some(Now)]
                    /\ result.auditLog.entityType = "TimeLock"
                    /\ result.auditLog.action = "UNLOCK"
                    /\ result.auditLog.entityId = lock.id
                    /\ result.auditLog.userId = lockCall.params.unlockedBy
                    /\ timeLocks[lockCall.index] = result.lock
               /\ ~lock.isActive =>
                    /\ result.threw
                    /\ result.error.name = "ValidationError"
                    /\ timeLocks[lockCall.index] = lock)
    /\ [][\A i \in 1..Len(timeLocks) :
            ~timeLocks[i].isActive =>
                /\ Len(timeLocks') >= i
                /\ timeLocks'[i] = timeLocks[i]]_vars

\* a second unlock of a lock that was unlocked before was refused
C21_Witness ==
    /\ lockCall.op = "unlockTimeLock"
    /\ ~lockCall.params.lock.isActive
    /\ IsSet(lockCall.params.lock.unlockedAt)
    /\ lockCall.result.threw
    /\ lockCall.result.error.name = "ValidationError"
    /\ ~timeLocks[lockCall.index].isActive

\* the locks of a list, as a set
LocksOf(locks) == {locks[i] : i \in 1..Len(locks)}

\* at most one stored lock per id
ManagerHoldsOnePerId ==
    \A i \in 1..Len(timeLocks), j \in 1..Len(timeLocks) :
        (timeLocks[i].id = timeLocks[j].id) => (i = j)

\* what the queries are said to answer
ManagerQueriesExact ==
    (lockCall.op = "query") =>
        LET e == lockCall.entry
            active == {l \in LocksOf(timeLocks) : l.isActive}
        IN /\ LocksOf(lockCall.activeLocks) = active
           /\ Len(lockCall.activeLocks) = Cardinality(active)
           /\ LocksOf(lockCall.projectLocks) =
                {l \in active : l.projectId = Some(e.projectId)}
           /\ LocksOf(lockCall.clientLocks) =
                {l \in active : l.clientId = Some(e.clientId)}
           /\ lockCall.entryLocked <=> (ClaimedConflicts(e, timeLocks) # {})
           /\ lockCall.periodLocked <=>
                (\E l \in active : /\ l.projectId = Some(e.projectId)
                                    /\ ClaimedInclusiveOverlap(e, l))

\* what a call of the manager is said to do to the stored locks
ManagerStepExact ==
    /\ (lockCall'.op = "addLock") =>
            (LocksOf(timeLocks') =
                {l \in LocksOf(timeLocks) : l.id # lockCall'.lock.id}
                    \cup {lockCall'.lock})
    /\ (lockCall'.op = "removeLock") =>
            (LocksOf(timeLocks') =
                {l \in LocksOf(timeLocks) : l.id # lockCall'.lockId})
    /\ (lockCall'.op = "query") => (timeLocks' = timeLocks)

\* C22 (lock manager state): the manager holds at most one lock per id; addLock
\* puts the lock in place of any stored lock with its id and leaves the others,
\* removeLock takes the lock with that id away and leaves the others (nothing
\* changes for an unknown id); getActiveLocks is exactly the stored locks with
\* isActive = true, getProjectLocks(p) and getClientLocks(c) exactly the active
\* stored locks with that projectId or clientId; isEntryLocked(e) is true iff
\* some active stored lock conflicts with e, and isPeriodLocked likewise for the
\* period and the project key.
C22_LockManager ==
    /\ [](ManagerHoldsOnePerId /\ ManagerQueriesExact)
    /\ [][ManagerStepExact]_vars

\* an inactive lock was added in place of the active lock with its id, and the
\* entry that lock covered is no longer locked
C22_Witness ==
    /\ lockCall.op = "query"
    /\ Len(timeLocks) = 2
    /\ ~timeLocks[1].isActive /\ timeLocks[2].isActive
    /\ timeLocks[1].projectId = Some(lockCall.entry.projectId)
    /\ ClaimedInclusiveOverlap(lockCall.entry, timeLocks[1])
    /\ Len(lockCall.activeLocks) = 1
    /\ ~lockCall.entryLocked

\* the positions of a list of entries that hold an entry with the given id
PositionsOf(list, id) == {i \in 1..Len(list) : list[i].id = id}

\* C23 (timesheet submission): when no active lock meets the timesheet period
\* or a DRAFT entry, submitTimesheet returns every DRAFT entry with status
\* SUBMITTED and every other entry (REJECTED ones too) unchanged, the returned
\* entries having exactly the input ids; the audit logs are one TimeEntry SUBMIT
\* log per DRAFT entry followed by one Timesheet SUBMIT log whose
\* entriesSubmitted is the number of DRAFT entries; the returned timesheet is
\* SUBMITTED, with submittedAt = context.timestamp and the returned entries.
C23_SubmitTimesheet ==
    (/\ last.op = "submitTimesheet"
     /\ ~ClaimedLocked(last.timesheet[1].periodStart, last.timesheet[1].periodEnd,
                       last.locks)
     /\ \A i \in 1..Len(last.input) :
            last.input[i].status = DRAFT =>
                ~ClaimedLocked(last.input[i].startAt, last.input[i].endAt, last.locks)) =>
        LET input == last.input
            result == last.result
            drafts == {i \in 1..Len(input) : input[i].status = DRAFT}
            nDrafts == Cardinality(drafts)
        IN /\ ~result.threw
           /\ Len(result.entries) = Len(input)
           /\ \A id \in EntryIds :
                /\ Cardinality(PositionsOf(result.entries, id)) =
                        Cardinality(PositionsOf(input, id))
                /\ \A i \in PositionsOf(input, id), j \in PositionsOf(result.entries, id) :
                        IF input[i].status = DRAFT
                        THEN result.entries[j] =
                                [input[i] EXCEPT !.status = SUBMITTED,
                                                 !.updatedAt = last.context.timestamp]
                        ELSE result.entries[j] = input[i]
           /\ Len(result.auditLogs) = nDrafts + 1
           /\ \A k \in 1..nDrafts :
                /\ result.auditLogs[k].entityType = "TimeEntry"
                /\ result.auditLogs[k].action = "SUBMIT"
                /\ \E i \in drafts : result.auditLogs[k].entityId = input[i].id
           /\ result.auditLogs[nDrafts + 1].entityType = "Timesheet"
           /\ result.auditLogs[nDrafts + 1].action = "SUBMIT"
           /\ result.auditLogs[nDrafts + 1].entityId = last.timesheet[1].id
           /\ result.auditLogs[nDrafts + 1].metadata.entriesSubmitted = nDrafts
           /\ result.timesheet.status = SUBMITTED
           /\ result.timesheet.submittedAt = Some(last.context.timestamp)
           /\ result.timesheet.entries = result.entries

\* a timesheet with a REJECTED and a DRAFT entry was submitted: the REJECTED
\* entry came back as it was, the DRAFT one SUBMITTED
C23_Witness ==
    /\ last.op = "submitTimesheet" /\ Len(last.input) = 2
    /\ last.input[1].status = DRAFT /\ last.input[2].status = REJECTED
    /\ ~last.result.threw
    /\ last.result.entries[1] = last.input[2]
    /\ last.result.entries[2].status = SUBMITTED
    /\ last.result.auditLogs[2].metadata.entriesSubmitted = 1

\* C28 (duration validation): validateDuration returns valid when end > start
\* and the duration is at most 1440 minutes; invalid with "End time must be
\* after start time" when end <= start; invalid with "Time entry cannot exceed
\* 24 hours" when the duration is over 1440 minutes.
C28_ValidateDuration ==
    (call.op = "validateDuration") =>
        LET elapsed == call.endAt - call.startAt
            day == 1440 * millisecondsInMinute
        IN /\ (elapsed > 0 /\ elapsed <= day) =>
                call.result = [valid |-> TRUE, error |-> Undefined]
           /\ (elapsed <= 0) =>
                call.result = [valid |-> FALSE,
                               error |-> Some("End time must be after start time")]
           /\ (elapsed > day) =>
                call.result = [valid |-> FALSE,
                               error |-> Some("Time entry cannot exceed 24 hours")]

\* C30 (rounding): roundDuration returns minutes unchanged for interval 0;
\* otherwise a multiple of the interval at most interval/2 away from minutes,
\* the higher one on an exact tie; rounding a rounded value changes nothing.
C30_RoundDuration ==
    (call.op = "roundDuration") =>
        /\ (call.interval = 0) => (call.result = call.minutes)
        /\ (call.interval # 0) =>
            /\ call.result % call.interval = 0
            /\ 2 * Abs(call.result - call.minutes) <= call.interval
            /\ (2 * Abs(call.result - call.minutes) = call.interval) =>
                    (call.result > call.minutes)
        /\ call.again = call.result

\* 9 minutes are rounded to 12 with the six-minute interval: a tie, upwards
C30_Witness ==
    /\ call.op = "roundDuration"
    /\ call.minutes = 9 /\ call.interval = 6
    /\ call.result = 12 /\ call.again = 12

\* the cards said to be eligible: active, effectiveFrom <= atDate and no
\* effectiveTo or effectiveTo >= atDate
ClaimedEligible(rateCards, atDate) ==
    {i \in 1..Len(rateCards) :
        /\ rateCards[i].isActive
        /\ rateCards[i].effectiveFrom <= atDate
        /\ \/ rateCards[i].effectiveTo = Undefined
           \/ rateCards[i].effectiveTo[1] >= atDate}

\* the eligible cards of each tier: 1 project, 2 client, 3 developer default
ClaimedTier(tier, entry, rateCards, atDate) ==
    {i \in ClaimedEligible(rateCards, atDate) :
        CASE tier = 1 -> rateCards[i].projectId = Some(entry.projectId)
          [] tier = 2 -> rateCards[i].clientId = Some(entry.clientId)
          [] tier = 3 -> /\ rateCards[i].developerId = Some(entry.developerId)
                         /\ rateCards[i].projectId = Undefined
                         /\ rateCards[i].clientId = Undefined}

\* the result is a card of the set with the greatest effectiveFrom
LatestOf(result, rateCards, set) ==
    \E i \in set :
        /\ result = Some(rateCards[i])
        /\ \A j \in set : rateCards[j].effectiveFrom <= rateCards[i].effectiveFrom

C25_EffectiveDates ==
    (call.op = "resolveEffectiveRate") =>
        LET tier(t) == ClaimedTier(t, call.entry, call.rateCards, call.atDate)
            lowest(t) == tier(t) # {} /\ \A u \in 1..(t - 1) : tier(u) = {}
        IN /\ (call.result # Null) =>
                /\ call.result[1].isActive
                /\ ~(call.result[1].effectiveFrom > call.atDate)
                /\ ~(/\ call.result[1].effectiveTo # Undefined
                      /\ call.result[1].effectiveTo[1] < call.atDate)
           /\ \A t \in 1..3 :
                lowest(t) => \E i \in tier(t) : call.result = Some(call.rateCards[i])
           /\ (call.result = Null) <=> (tier(1) \cup tier(2) \cup tier(3) = {})

\* a project card that starts after atDate is passed over for a developer
\* card whose effectiveFrom is atDate itself
C25_Witness ==
    /\ call.op = "resolveEffectiveRate"
    /\ Len(call.rateCards) = 2
    /\ call.rateCards[1].projectId = Some(call.entry.projectId)
    /\ call.rateCards[1].isActive
    /\ call.rateCards[1].effectiveFrom > call.atDate
    /\ call.rateCards[2].effectiveFrom = call.atDate
    /\ ClaimedTier(3, call.entry, call.rateCards, call.atDate) = {2}
    /\ call.result = Some(call.rateCards[2])

\* the date and the interval a call of calculateEntryCosts is said to use
ClaimedAtDate(params, now) == IF params.atDate = Undefined THEN now ELSE params.atDate[1]

ClaimedInterval(params) ==
    IF params.roundingInterval = Undefined THEN 15 ELSE params.roundingInterval[1]

\* the entries said to be costed: billable, with a resolved rate
ClaimedCosted(params, now) ==
    LET costed(e) == /\ e.billable
                     /\ resolveEffectiveRate(e, params.rateCards,
                                              ClaimedAtDate(params, now)) # Null
    IN SelectSeq(params.entries, costed)

\* C26 (entry costs): calculateEntryCosts returns one EntryCost for each
\* billable entry for which resolveEffectiveRate returns a card, in input
\* order, and none for the other entries; each has originalMinutes =
\* durationMinutes, roundedMinutes = roundDuration(durationMinutes, interval),
\* the interval being 15 when none is given, and the card's hourlyRate and
\* currency.
C26_EntryCosts ==
    (call.op = "calculateEntryCosts") =>
        LET costed == ClaimedCosted(call.params, call.now)
        IN /\ Len(call.result) = Len(costed)
           /\ \A k \in 1..Len(costed) :
                LET card == resolveEffectiveRate(costed[k], call.params.rateCards,
                                                 ClaimedAtDate(call.params, call.now))[1]
                IN /\ call.result[k].entryId = costed[k].id
                   /\ call.result[k].originalMinutes = costed[k].durationMinutes
                   /\ call.result[k].roundedMinutes =
                        roundDuration(costed[k].durationMinutes,
                                      ClaimedInterval(call.params))
                   /\ call.result[k].hourlyRate = card.hourlyRate
                   /\ call.result[k].currency = card.currency

\* of two billable entries the first has no rate and is skipped; the second
\* is costed at the client rate, its 95 minutes rounded to 90 by default
C26_Witness ==
    /\ call.op = "calculateEntryCosts"
    /\ Len(call.params.entries) = 2
    /\ call.params.entries[1].billable /\ call.params.entries[2].billable
    /\ call.params.roundingInterval = Undefined
    /\ Len(call.result) = 1
    /\ call.result[1].entryId = "entry-2"
    /\ call.result[1].originalMinutes = 95 /\ call.result[1].roundedMinutes = 90
    /\ call.result[1].currency = "EUR"

\* the sum of a list of numbers
RECURSIVE SumSeq(_)
SumSeq(numbers) == IF numbers = <<>> THEN 0 ELSE Head(numbers) + SumSeq(Tail(numbers))

\* the sum of the values of a record of numbers
RECURSIVE SumValues(_)
SumValues(f) ==
    IF DOMAIN f = {} THEN 0
    ELSE LET p == CHOOSE q \in DOMAIN f : TRUE
         IN f[p] + SumValues([q \in DOMAIN f \ {p} |-> f[q]])

\* the cost said to be counted for an entry: that of its cost record if it is
\* billable and has one, in cents
ClaimedCost(entry, costs) ==
    IF entry.billable /\ \E i \in 1..Len(costs) : costs[i].entryId = entry.id
    THEN CostMapGet(costs, entry.id)[1].cost
    ELSE 0

\* the conservation laws of one aggregation
Conserves(summaries, entryList, costs) ==
    /\ \A k \in 1..Len(summaries) :
            summaries[k].totalMinutes =
                summaries[k].billableMinutes + summaries[k].nonBillableMinutes
    /\ SumSeq([k \in 1..Len(summaries) |-> summaries[k].entryCount]) = Len(entryList)
    /\ SumSeq([k \in 1..Len(summaries) |-> summaries[k].totalMinutes]) =
            SumSeq([i \in 1..Len(entryList) |-> entryList[i].durationMinutes])
    /\ SumSeq([k \in 1..Len(summaries) |-> summaries[k].totalCost]) =
            SumSeq([i \in 1..Len(entryList) |-> ClaimedCost(entryList[i], costs)])

\* C29 (aggregation conservation): for entries with distinct ids and any cost
\* list, every summary of aggregateByProject, aggregateByDeveloper and
\* aggregateByDay has totalMinutes = billableMinutes + nonBillableMinutes; in
\* each aggregation the entryCounts sum to the number of entries, the
\* totalMinutes to the sum of the durations and the totalCosts to the sum of
\* the costs of the billable entries that have a cost record; a developer's
\* projectBreakdown sums to the developer's totalMinutes; aggregateByDay has
\* one summary per distinct day of startAt, in strictly ascending order.
C29_AggregationConserves ==
    (call.op = "aggregate") =>
        /\ Conserves(call.byProject, call.entries, call.costs)
        /\ Conserves(call.byDeveloper, call.entries, call.costs)
        /\ Conserves(call.byDay, call.entries, call.costs)
        /\ \A k \in 1..Len(call.byDeveloper) :
                SumValues(call.byDeveloper[k].projectBreakdown) =
                    call.byDeveloper[k].totalMinutes
        /\ {call.byDay[k].date : k \in 1..Len(call.byDay)} =
                {call.entries[i].startAt \div 24 : i \in 1..Len(call.entries)}
        /\ \A k \in 1..(Len(call.byDay) - 1) : call.byDay[k].date < call.byDay[k + 1].date

\* two entries of one developer on two projects, the later day first, the
\* second entry non-billable with a cost record that is not counted
C29_Witness ==
    /\ call.op = "aggregate"
    /\ Len(call.entries) = 2
    /\ call.entries[1].startAt > call.entries[2].startAt + 24
    /\ call.entries[1].billable /\ ~call.entries[2].billable
    /\ Len(call.costs) = 2
    /\ Len(call.byDeveloper) = 1 /\ Len(call.byProject) = 2
    /\ Len(call.byDay) = 2
    /\ call.byDay[1].totalCost = 0 /\ call.byDay[2].totalCost > 0
    /\ call.byDeveloper[1].totalCost = call.byDay[2].totalCost

\* the entries said to be counted by an export
ClaimedCounted(params) ==
    LET counted(e) ==
            /\ e.status \in {APPROVED, LOCKED, BILLED}
            /\ e.billable \/ params.includeNonBillable = Some(TRUE)
    IN SelectSeq(params.entries, counted)

\* an aggregation counts the given entries and no others
CountsOnly(summaries, counted) ==
    /\ SumSeq([k \in 1..Len(summaries) |-> summaries[k].entryCount]) = Len(counted)
    /\ SumSeq([k \in 1..Len(summaries) |-> summaries[k].totalMinutes]) =
            SumSeq([i \in 1..Len(counted) |-> counted[i].durationMinutes])

\* C27 (export filter): generateFinanceExport counts only APPROVED, LOCKED and
\* BILLED entries, and of these only the billable ones unless
\* includeNonBillable is true (it defaults to false): summary.totalEntries is
\* the number of entries passing both filters, the summary totals and the
\* aggregations are those of these entries, and every EntryCost is the cost
\* of one of them.
C27_ExportFilter ==
    (call.op = "generateFinanceExport") =>
        LET counted == ClaimedCounted(call.params)
            result == call.result
            billable(e) == e.billable
            billed == SelectSeq(counted, billable)
        IN /\ result.summary.totalEntries = Len(counted)
           /\ result.summary.totalMinutes =
                SumSeq([i \in 1..Len(counted) |-> counted[i].durationMinutes])
           /\ result.summary.billableMinutes =
                SumSeq([i \in 1..Len(billed) |-> billed[i].durationMinutes])
           /\ result.summary.totalCost =
                SumSeq([i \in 1..Len(counted) |-> ClaimedCost(counted[i], result.costs)])
           /\ \A k \in 1..Len(result.costs) :
                \E i \in 1..Len(counted) : counted[i].id = result.costs[k].entryId
           /\ CountsOnly(result.aggregations.byProject, counted)
           /\ CountsOnly(result.aggregations.byDeveloper, counted)
           /\ CountsOnly(result.aggregations.byDay, counted)

\* a SUBMITTED billable entry and an APPROVED non-billable one are left out
\* of an export made without includeNonBillable: nothing is counted
C27_Witness ==
    /\ call.op = "generateFinanceExport"
    /\ Len(call.params.entries) = 2
    /\ call.params.includeNonBillable = Undefined
    /\ call.params.entries[1].status = SUBMITTED /\ call.params.entries[1].billable
    /\ call.params.entries[2].status = APPROVED /\ ~call.params.entries[2].billable
    /\ call.result.summary.totalEntries = 0
    /\ call.result.costs = <<>>
    /\ call.result.aggregations.byProject = <<>>

\* C31 (cost formula): the cost of every costed entry, in cents, is
\* roundedMinutes * hourlyRate * 100 / 60 rounded to the nearest integer,
\* halves up; 120 minutes at 150 an hour with 15-minute rounding cost 300.00
\* and 95 minutes are rounded to 90 and cost 225.00.
C31_CostFormula ==
    (call.op = "calculateEntryCosts") =>
        \A k \in 1..Len(call.result) :
            LET c == call.result[k]
                exact60 == c.roundedMinutes * c.hourlyRate * 100
            IN /\ 60 * c.cost <= exact60 + 30
               /\ exact60 + 30 < 60 * c.cost + 60
               /\ (c.roundedMinutes = 120 /\ c.hourlyRate = 150) => (c.cost = 30000)
               /\ (c.originalMinutes = 95 /\ c.hourlyRate = 150
                        /\ ClaimedInterval(call.params) = 15) =>
                    (c.roundedMinutes = 90 /\ c.cost = 22500)

\* with 5-minute rounding 120 minutes at 150 an hour cost 300.00, and 8
\* minutes, rounded to 10, at 100 an hour cost 16.67, rounded up from 16.666...
C31_Witness ==
    /\ call.op = "calculateEntryCosts"
    /\ Len(call.result) = 2
    /\ call.result[1].originalMinutes = 120 /\ call.result[1].roundedMinutes = 120
    /\ call.result[1].hourlyRate = 150 /\ call.result[1].cost = 30000
    /\ call.result[2].originalMinutes = 8 /\ call.result[2].roundedMinutes = 10
    /\ call.result[2].hourlyRate = 100 /\ call.result[2].cost = 1667

\* the overlap said to be detected: exclusive bounds
ClaimedOverlap(a, b) == a.startAt < b.endAt /\ b.startAt < a.endAt

\* the pairs of positions i < j said to be reported
ClaimedPairs(entryList) ==
    {p \in (1..Len(entryList)) \X (1..Len(entryList)) :
        p[1] < p[2] /\ ClaimedOverlap(entryList[p[1]], entryList[p[2]])}

\* the number of claimed pairs that come before p in the order by (i, j)
PairsBefore(p, pairs) ==
    Cardinality({q \in pairs : q[1] < p[1] \/ (q[1] = p[1] /\ q[2] < p[2])})

\* C32 (entry overlap): detectOverlap(a, b) is true iff a.startAt < b.endAt
\* and b.startAt < a.endAt, so abutting entries do not overlap, and is
\* symmetric; findOverlaps returns exactly the id pairs of the positions
\* i < j for which detectOverlap holds, each once, ordered by (i, j).
C32_EntryOverlap ==
    /\ (call.op = "detectOverlap") =>
            /\ call.result <=> ClaimedOverlap(call.entry1, call.entry2)
            /\ call.result <=> call.swapped
    /\ (call.op = "findOverlaps") =>
            LET pairs == ClaimedPairs(call.entries)
            IN /\ Len(call.result) = Cardinality(pairs)
               /\ \A p \in pairs :
                    call.result[PairsBefore(p, pairs) + 1] =
                        <<call.entries[p[1]].id, call.entries[p[2]].id>>

\* of three entries the first overlaps the other two, which only abut
C32_Witness ==
    /\ call.op = "findOverlaps"
    /\ Len(call.entries) = 3
    /\ call.entries[2].endAt = call.entries[3].startAt
    /\ call.entries[2].startAt < call.entries[2].endAt
    /\ call.entries[3].startAt < call.entries[3].endAt
    /\ call.result = << <<"1", "2">>, <<"1", "3">> >>

\* C33 (invoice mapping): for a non-empty entry list with distinct ids,
\* mapToInvoice returns totalAmount = the sum of the costs of the billable
\* entries that have a cost record, projectIds with each project id of the
\* entries exactly once, entries = the input list, and dateRange from the
\* least to the greatest startAt.
C33_MapToInvoice ==
    (call.op = "mapToInvoice") =>
        LET input == call.entries
            result == call.result
            positions == 1..Len(input)
        IN /\ result.totalAmount =
                SumSeq([i \in positions |-> ClaimedCost(input[i], call.costs)])
           /\ {result.projectIds[k] : k \in 1..Len(result.projectIds)} =
                {input[i].projectId : i \in positions}
           /\ \A k, l \in 1..Len(result.projectIds) :
                (result.projectIds[k] = result.projectIds[l]) => (k = l)
           /\ result.entries = input
           /\ \E i \in positions : result.dateRange.from = input[i].startAt
           /\ \E i \in positions : result.dateRange.to = input[i].startAt
           /\ \A i \in positions :
                /\ result.dateRange.from <= input[i].startAt
                /\ input[i].startAt <= result.dateRange.to

\* two entries of one project, the later one first and billable, the earlier
\* one non-billable with a cost record that is not invoiced
C33_Witness ==
    /\ call.op = "mapToInvoice"
    /\ Len(call.entries) = 2 /\ Len(call.costs) = 2
    /\ call.entries[1].billable /\ ~call.entries[2].billable
    /\ call.entries[1].startAt > call.entries[2].startAt
    /\ Len(call.result.projectIds) = 1
    /\ call.result.totalAmount = call.costs[1].cost
    /\ call.costs[2].cost > 0
    /\ call.result.dateRange.from = call.entries[2].startAt
    /\ call.result.dateRange.to = call.entries[1].startAt

\* the call was refused with PeriodLockedError and the only active lock that
\* meets the entry is L, the lock at the index
RefusedByOnly(c) ==
    /\ c.before.threw /\ c.before.error.name = "PeriodLockedError"
    /\ \A i \in 1..Len(c.locks) :
            (i = c.index) <=>
                ClaimedLocked(c.entry.startAt, c.entry.endAt, <<c.locks[i]>>)

\* another active lock of the list shares the scope of L and overlaps its period
OtherLockInTheWay(c) ==
    \E i \in 1..Len(c.locks) :
        /\ i # c.index
        /\ c.locks[i].isActive
        /\ ClaimedSameScope(c.newLock, c.locks[i])
        /\ ClaimedExclusiveOverlap(c.newLock, c.locks[i])

\* C34 (unlock releases the gate), as claimed: if submit or approve of an
\* entry fails with PeriodLockedError and the only active lock meeting the
\* entry is L, then with L replaced by unlockTimeLock(L).lock the same call
\* succeeds, and validateLockOverlap accepts a new lock with the scope and
\* the period of L.
C34_UnlockReleasesGate ==
    (lockCall.op = "releaseGate" /\ RefusedByOnly(lockCall)) =>
        /\ ~lockCall.unlocked.threw
        /\ ~lockCall.after.threw
        /\ ~lockCall.accepted.threw

\* C34 amended: the same call succeeds; validateLockOverlap accepts the new
\* lock iff no other active lock of the list shares the scope of L and
\* overlaps its period.
C34_UnlockReleasesCall ==
    (lockCall.op = "releaseGate" /\ RefusedByOnly(lockCall)) =>
        /\ ~lockCall.unlocked.threw
        /\ ~lockCall.after.threw
        /\ lockCall.after.entries[1].status =
                (IF lockCall.call = "submit" THEN SUBMITTED ELSE APPROVED)
        /\ lockCall.accepted.threw <=> OtherLockInTheWay(lockCall)

\* the submit refused because of L succeeds once L is unlocked, while an
\* active lock of the same project that misses the entry still stands in
\* the way of a new lock over the period of L
C34_Witness ==
    /\ lockCall.op = "releaseGate" /\ lockCall.call = "submit"
    /\ RefusedByOnly(lockCall)
    /\ Len(lockCall.locks) = 2 /\ lockCall.index = 1
    /\ ~lockCall.released[1].isActive
    /\ ~lockCall.after.threw
    /\ OtherLockInTheWay(lockCall)
    /\ lockCall.accepted.threw

\* an active lock with neither key of the entry meets the entry's interval,
\* bounds included
ForeignLockMeets(entry, locks) ==
    \E i \in 1..Len(locks) :
        /\ locks[i].isActive
        /\ locks[i].projectId # Some(entry.projectId)
        /\ locks[i].clientId # Some(entry.clientId)
        /\ locks[i].periodStart <= entry.endAt
        /\ entry.startAt <= locks[i].periodEnd

\* the gated call that the status of the entry allows
CallInTurn(c) == IF c.entry.status = DRAFT THEN c.submit ELSE c.approve

\* C35 (the workflow gate is at least as strict as the scoped check and
\* ignores scope): whenever checkEntryLockConflict returns a lock for an
\* entry, isPeriodLocked is true for its interval and submit and approve of
\* the entry are refused; and an active lock with another projectId and
\* another clientId still makes submit or approve throw PeriodLockedError
\* when its period meets the entry's interval, bounds included.
C35_GateIgnoresScope ==
    (lockCall.op = "compareGates") =>
        /\ (lockCall.conflict # Null) =>
                /\ lockCall.locked
                /\ lockCall.submit.threw /\ lockCall.approve.threw
                /\ CallInTurn(lockCall).error.name = "PeriodLockedError"
        /\ ForeignLockMeets(lockCall.entry, lockCall.locks) =>
                /\ lockCall.locked
                /\ CallInTurn(lockCall).threw
                /\ CallInTurn(lockCall).error.name = "PeriodLockedError"

\* a lock of another project and another client that ends on the day the
\* entry starts: no scoped conflict, yet the submit is refused
C35_Witness ==
    /\ lockCall.op = "compareGates"
    /\ lockCall.entry.status = DRAFT
    /\ Len(lockCall.locks) = 1
    /\ ForeignLockMeets(lockCall.entry, lockCall.locks)
    /\ lockCall.locks[1].periodEnd = lockCall.entry.startAt
    /\ lockCall.conflict = Null
    /\ lockCall.submit.threw
    /\ lockCall.submit.error.name = "PeriodLockedError"

(* ------------- what a successful call adds to its input ----------------- *)
\* the audit action each operation is said to write
ClaimedAction ==
    [submit |-> "SUBMIT", approve |-> "APPROVE", reject |-> "REJECT",
     lock |-> "LOCK", bill |-> "BILL"]

\* the stage fields each operation is said to set, besides status and updatedAt
ClaimedOwnFields ==
    [submit |-> {}, approve |-> {"approvedBy", "approvedAt"},
     reject |-> {"rejectedBy", "rejectedAt", "rejectionReason"},
     lock |-> {"lockedAt"}, bill |-> {"billedAt", "invoiceId"}]

\* the values the operation's own stage fields are said to take
ClaimedOwnValues(c, updated) ==
    CASE c.op = "submit" -> TRUE
      [] c.op = "approve" -> /\ updated.approvedBy = Some(c.context.userId)
                             /\ updated.approvedAt = Some(c.context.timestamp)
      [] c.op = "reject" -> /\ updated.rejectedBy = Some(c.context.userId)
                            /\ updated.rejectedAt = Some(c.context.timestamp)
                            /\ updated.rejectionReason = c.reason
      [] c.op = "lock" -> updated.lockedAt = Some(c.context.timestamp)
      [] c.op = "bill" -> /\ updated.billedAt = Some(c.context.timestamp)
                          /\ updated.invoiceId = c.invoiceId

\* C36 (output is input plus the delta): a successful workflow operation on n
\* entries returns n updated entries in input order with the same ids and n
\* audit logs, log i naming TimeEntry, the id of entry i, the operation's
\* action, context.userId, entry i's input status and the target status; each
\* updated entry differs from its input only in status, updatedAt
\* (= context.timestamp) and the operation's own stage fields, every other
\* field, stage fields of earlier operations included, is carried over, and
\* the entries handed in are still what the caller holds.
C36_OutputIsInputPlusDelta ==
    LastSucceeded =>
        /\ Len(last.result.entries) = Len(last.input)
        /\ Len(last.result.auditLogs) = Len(last.input)
        /\ \A i \in 1..Len(last.input) :
              LET entry == last.input[i]
                  updated == last.result.entries[i]
                  log == last.result.auditLogs[i]
              IN /\ updated.id = entry.id
                 /\ log.entityType = "TimeEntry"
                 /\ log.entityId = entry.id
                 /\ log.action = ClaimedAction[last.op]
                 /\ log.userId = last.context.userId
                 /\ log.metadata.previousStatus = entry.status
                 /\ log.metadata.newStatus = ClaimedTarget[last.op]
                 /\ updated.status = ClaimedTarget[last.op]
                 /\ updated.updatedAt = last.context.timestamp
                 /\ ClaimedOwnValues(last, updated)
                 /\ DOMAIN updated = DOMAIN entry
                 /\ \A f \in DOMAIN entry \ (ClaimedOwnFields[last.op]
                                                \cup {"status", "updatedAt"}) :
                        updated[f] = entry[f]
                 /\ entry = entries[entry.id]

\* two approved entries rejected in one call: the approval set by the earlier
\* operation is still on both returned entries
C36_Witness ==
    /\ last.op = "reject" /\ ~last.result.threw
    /\ Len(last.input) = 2
    /\ \A i \in 1..2 :
          /\ last.input[i].status = APPROVED
          /\ last.input[i].approvedBy # Undefined
          /\ last.result.entries[i].approvedBy = last.input[i].approvedBy
          /\ last.result.entries[i].rejectedBy = Some(last.context.userId)
    /\ last.result.entries[1].id # last.result.entries[2].id

SameSubmittedSnapshot ==
    /\ callers.approve.pc >= 2 /\ callers.reject.pc >= 2
    /\ callers.approve.snapshot = callers.reject.snapshot
    /\ callers.approve.snapshot[1].status = SUBMITTED

\* C38 (stale snapshots are not detected): an approve call and a reject call
\* made by two callers on the same SUBMITTED snapshot of one entry both
\* succeed, each returning one updated entry and one audit log; once both
\* results are stored the entry is the one the later writer returned, APPROVED
\* or REJECTED by write order, the audit logs of both transitions are in the
\* store, and nothing threw.
C38_StaleSnapshots ==
    SameSubmittedSnapshot =>
        LET approved == callers.approve.result
            rejected == callers.reject.result
            logs == callers.auditLogs
        IN /\ ~approved.threw /\ ~rejected.threw
           /\ Len(approved.entries) = 1 /\ Len(approved.auditLogs) = 1
           /\ Len(rejected.entries) = 1 /\ Len(rejected.auditLogs) = 1
           /\ approved.entries[1].status = APPROVED
           /\ rejected.entries[1].status = REJECTED
           /\ approved.auditLogs[1].metadata.previousStatus = SUBMITTED
           /\ rejected.auditLogs[1].metadata.previousStatus = SUBMITTED
           /\ (callers.approve.pc = 3 /\ callers.reject.pc = 3) =>
                /\ Len(logs) = 2
                /\ {logs[1], logs[2]} = {approved.auditLogs[1], rejected.auditLogs[1]}
                /\ logs[1] # logs[2]
                /\ entries["entry-1"] = IF logs[2].action = "APPROVE"
                                        THEN approved.entries[1]
                                        ELSE rejected.entries[1]
                /\ entries["entry-1"].status \in {APPROVED, REJECTED}

\* both calls were made on the SUBMITTED snapshot, the rejection was stored
\* first and the approval over it: the entry ends APPROVED with no trace of the
\* rejection, whose audit log is in the store
C38_Witness ==
    /\ SameSubmittedSnapshot
    /\ callers.approve.pc = 3 /\ callers.reject.pc = 3
    /\ callers.auditLogs[1].action = "REJECT"
    /\ callers.auditLogs[2].action = "APPROVE"
    /\ entries["entry-1"].status = APPROVED
    /\ entries["entry-1"].rejectedBy = Undefined

(* ------------- the timesheet's own status ------------------------------- *)
\* C39 (no guard on the timesheet's status): for a timesheet in any of the six
\* statuses, when no active lock meets its period or one of its DRAFT entries,
\* submitTimesheet succeeds and returns the timesheet with status SUBMITTED,
\* also when no entry is DRAFT (entriesSubmitted = 0) and when the timesheet
\* was already APPROVED, LOCKED or BILLED, whatever the statuses of its
\* entries.
C39_TimesheetStatusUnguarded ==
    (/\ last.op = "submitTimesheet"
     /\ last.timesheet[1].status \in TimeEntryStatus
     /\ ~ClaimedLocked(last.timesheet[1].periodStart, last.timesheet[1].periodEnd,
                       last.locks)
     /\ \A i \in 1..Len(last.input) :
            last.input[i].status = DRAFT =>
                ~ClaimedLocked(last.input[i].startAt, last.input[i].endAt, last.locks)) =>
        LET result == last.result
            drafts == {i \in 1..Len(last.input) : last.input[i].status = DRAFT}
        IN /\ ~result.threw
           /\ result.timesheet.status = SUBMITTED
           /\ result.timesheet.id = last.timesheet[1].id
           /\ result.auditLogs[Len(result.auditLogs)].entityType = "Timesheet"
           /\ result.auditLogs[Len(result.auditLogs)].metadata.entriesSubmitted =
                    Cardinality(drafts)
           /\ (drafts = {}) => /\ Len(result.auditLogs) = 1
                               /\ result.entries = last.input

\* a BILLED timesheet whose two entries are both past DRAFT went through:
\* it came back SUBMITTED with nothing submitted, its entries still APPROVED
C39_Witness ==
    /\ last.op = "submitTimesheet" /\ ~last.result.threw
    /\ last.timesheet[1].status = BILLED
    /\ Len(last.input) = 2
    /\ \A i \in 1..2 : last.input[i].status = APPROVED
    /\ last.result.timesheet.status = SUBMITTED
    /\ last.result.auditLogs[1].metadata.entriesSubmitted = 0
    /\ \A i \in 1..2 : last.result.timesheet.entries[i].status = APPROVED

(* ------------- the developer a rate card names -------------------------- *)
\* C40 (rate cards respect the developer they name): resolveEffectiveRate
\* never returns, for an entry of developer D, a card whose developerId is set
\* to another developer; a card naming a developer together with a project or
\* a client is applied only to that developer's entries.
C40_RateCardDeveloper ==
    (call.op = "resolveEffectiveRate" /\ call.result # Null) =>
        call.result[1].developerId \in {Undefined, Some(call.entry.developerId)}

====
